---- MODULE Spec2Model ----
(***************************************************************************)
(* fbx_objects_depviz: the in-memory graph (src/src/graph/mod.rs) and the  *)
(* filter engine (src/src/fbx/filter.rs).                                  *)
(*                                                                         *)
(* Strings are sequences of one-character strings, Option<T> is a sequence *)
(* of length 0 (None) or 1 (Some), a HashMap/BTreeMap is a function on its *)
(* key set, a Vec is a sequence.                                           *)
(***************************************************************************)
EXTENDS Integers, Sequences, FiniteSets, TLC

VARIABLES
    graph,           \* the Graph: style defaults, nodes (id -> Node), edges (Vec<Edge>)
    filters,         \* the Filters value given to Filters::apply
    pc,              \* position of the running call
    ni,              \* Filters::apply: index of the node rule being processed (AttrSpec: operations done; ApiSpec: calls made)
    target_uids,     \* Filters::apply: matched uids of the current node rule not yet processed
    ei,              \* Filters::apply: index of the edge rule being processed
    target_edges,    \* Filters::apply: matched edges (indices) of the current edge rule not yet processed
    graph0,          \* history: the graph as it was when the (last) call began
    log,             \* history: the match sets computed and the operation applications, in order (AttrSpec: the graph before each operation)
    call,            \* traversal: the running map_* call [name, targets, fun]
    done,            \* traversal: `done`
    undone_next,     \* traversal: `undone_next`
    undone_current,  \* traversal: what the `for` loop has still to yield (a set, or the Vec of a single hop)
    fun_calls,       \* history: id -> number of times `fun` was applied to that node
    input,           \* argument of the pure function or single operation under study
    output           \* its result

vars == <<graph, filters, pc, ni, target_uids, ei, target_edges, graph0, log,
          call, done, undone_next, undone_current, fun_calls, input, output>>

applyVars == <<filters, ni, target_uids, ei, target_edges, log>>
travVars == <<call, done, undone_next, undone_current, fun_calls>>
ioVars == <<input, output>>

-----------------------------------------------------------------------------
(* Option<T>, Result<T, E> *)

None == <<>>
Some(x) == <<x>>
IsSome(o) == Len(o) = 1
Unwrap(o) == o[1]

Ok(x) == [ok |-> TRUE, val |-> x]
Err == [ok |-> FALSE, val |-> <<>>]

Range(s) == {s[i] : i \in DOMAIN s}

EmptyMap == <<>>

\* The ascending sequence of a set of integers (BTreeMap iteration order)
RECURSIVE Ascending(_)
Ascending(set) ==
    IF set = {} THEN <<>>
    ELSE LET m == CHOOSE x \in set : \A y \in set : x <= y
         IN <<m>> \o Ascending(set \ {m})

\* HashMap::insert / BTreeMap::insert
MapInsert(m, k, v) == [x \in (DOMAIN m) \cup {k} |-> IF x = k THEN v ELSE m[x]]

\* HashMap::remove
MapRemove(m, k) == [x \in (DOMAIN m) \ {k} |-> m[x]]

-----------------------------------------------------------------------------
(* Strings *)

DigitChar(d) ==
    CASE d = 0 -> "0" [] d = 1 -> "1" [] d = 2 -> "2" [] d = 3 -> "3" [] d = 4 -> "4"
      [] d = 5 -> "5" [] d = 6 -> "6" [] d = 7 -> "7" [] d = 8 -> "8" [] d = 9 -> "9"

RECURSIVE Digits(_)
Digits(n) == IF n < 10 THEN <<DigitChar(n)>> ELSE Digits(n \div 10) \o <<DigitChar(n % 10)>>

\* i64::to_string: the decimal representation
to_string(i) == IF i < 0 THEN <<"-">> \o Digits(0 - i) ELSE Digits(i)

S_Model == <<"M", "o", "d", "e", "l">>
S_Material == <<"M", "a", "t", "e", "r", "i", "a", "l">>
S_Cube == <<"C", "u", "b", "e">>
S_Red == <<"R", "e", "d">>
S_Mesh == <<"M", "e", "s", "h">>
S_Empty == <<>>
S_OO == <<"O", "O">>
S_OP == <<"O", "P">>
S_Prop == <<"d", "i", "f", "f">>
S_label == <<"l", "a", "b", "e", "l">>
S_color == <<"c", "o", "l">>
S_red == <<"r", "e", "d">>
S_blue == <<"b", "l", "u">>
S_shape == <<"s", "h", "p">>
S_box == <<"b", "o", "x">>
T_self == <<"s", "e", "l", "f">>
T_ascendant == <<"a", "s", "c", "e", "n", "d", "a", "n", "t">>
T_descendant == <<"d", "e", "s", "c", "e", "n", "d", "a", "n", "t">>
T_parents == <<"p", "a", "r", "e", "n", "t", "s">>
T_children == <<"c", "h", "i", "l", "d", "r", "e", "n">>
T_siblings == <<"s", "i", "b", "s">>

-----------------------------------------------------------------------------
(* Regular expressions (the regex crate), for the fragment of patterns     *)
(* used here: literal characters, an optional leading ^ and an optional    *)
(* trailing $. A pattern with unbalanced parentheses does not compile.     *)

CountChar(s, c) == Cardinality({i \in DOMAIN s : s[i] = c})

\* Regex::new
RegexNew(p) ==
    IF CountChar(p, "(") # CountChar(p, ")")
    THEN Err
    ELSE LET a == Len(p) >= 1 /\ p[1] = "^"
             q == IF a THEN SubSeq(p, 2, Len(p)) ELSE p
             z == Len(q) >= 1 /\ q[Len(q)] = "$"
             l == IF z THEN SubSeq(q, 1, Len(q) - 1) ELSE q
         IN Ok([anchor_start |-> a, anchor_end |-> z, lit |-> l])

\* Regex::is_match: search semantics, anchored only where the pattern anchors
RegexIsMatch(re, s) ==
    \E i \in 1..(Len(s) + 1) :
        /\ i + Len(re.lit) - 1 <= Len(s)
        /\ SubSeq(s, i, i + Len(re.lit) - 1) = re.lit
        /\ re.anchor_start => i = 1
        /\ re.anchor_end => i + Len(re.lit) - 1 = Len(s)

\* `if let Some(ref s) = self.f { Some(Regex::new(s)?) } else { None }`
CompileOpt(o) ==
    IF IsSome(o)
    THEN LET r == RegexNew(Unwrap(o)) IN IF r.ok THEN Ok(Some(r.val)) ELSE Err
    ELSE Ok(None)

-----------------------------------------------------------------------------
(* Node conditions *)

\* NodeFilterCondition::compile
NodeFilterCondition_compile(c) ==
    LET class == CompileOpt(c.class)
        subclass == CompileOpt(c.subclass)
        name == CompileOpt(c.name)
        uid == CompileOpt(c.uid)
    IN IF ~class.ok THEN Err
       ELSE IF ~subclass.ok THEN Err
       ELSE IF ~name.ok THEN Err
       ELSE IF ~uid.ok THEN Err
       ELSE Ok([class |-> class.val, subclass |-> subclass.val,
                name |-> name.val, uid |-> uid.val])

\* mutant: the payload-less branch is lost
CompiledNodeFilterCondition_is_match_NoElse(c, node) ==
    IF IsSome(node.data)
       /\ LET data == Unwrap(node.data)
          IN \/ (IsSome(c.class) /\ ~RegexIsMatch(Unwrap(c.class), data.class))
             \/ (IsSome(c.subclass) /\ ~RegexIsMatch(Unwrap(c.subclass), data.subclass))
             \/ (IsSome(c.name) /\ ~RegexIsMatch(Unwrap(c.name), data.name))
    THEN FALSE
    ELSE IF IsSome(c.uid) /\ ~RegexIsMatch(Unwrap(c.uid), to_string(node.id))
    THEN FALSE
    ELSE TRUE

\* mutant: the condition also requires the node to be visible
CompiledNodeFilterCondition_is_match_Visible(c, node) ==
    /\ node.visible
    /\ CompiledNodeFilterCondition_is_match_NoElse(c, node)
    /\ (~IsSome(node.data) => ~(IsSome(c.class) \/ IsSome(c.subclass) \/ IsSome(c.name)))

\* CompiledNodeFilterCondition::is_match
CompiledNodeFilterCondition_is_match(c, node) ==
    IF IsSome(node.data)
    THEN LET data == Unwrap(node.data)
         IN IF IsSome(c.class) /\ ~RegexIsMatch(Unwrap(c.class), data.class)
            THEN FALSE
            ELSE IF IsSome(c.subclass) /\ ~RegexIsMatch(Unwrap(c.subclass), data.subclass)
            THEN FALSE
            ELSE IF IsSome(c.name) /\ ~RegexIsMatch(Unwrap(c.name), data.name)
            THEN FALSE
            ELSE IF IsSome(c.uid) /\ ~RegexIsMatch(Unwrap(c.uid), to_string(node.id))
            THEN FALSE
            ELSE TRUE
    ELSE IF IsSome(c.class) \/ IsSome(c.subclass) \/ IsSome(c.name)
    THEN FALSE
    ELSE IF IsSome(c.uid) /\ ~RegexIsMatch(Unwrap(c.uid), to_string(node.id))
    THEN FALSE
    ELSE TRUE

-----------------------------------------------------------------------------
(* Edge conditions *)

\* `if let Some(ref cond) = self.f { Some(cond.compile()?) } else { None }`
CompileOptCond(o) ==
    IF IsSome(o)
    THEN LET r == NodeFilterCondition_compile(Unwrap(o))
         IN IF r.ok THEN Ok(Some(r.val)) ELSE Err
    ELSE Ok(None)

\* EdgeFilterCondition::compile
EdgeFilterCondition_compile(c) ==
    LET src_condition == CompileOptCond(c.src_condition)
        dst_condition == CompileOptCond(c.dst_condition)
        connection_type == CompileOpt(c.connection_type)
        property_name == CompileOpt(c.property_name)
    IN IF ~src_condition.ok THEN Err
       ELSE IF ~dst_condition.ok THEN Err
       ELSE IF ~connection_type.ok THEN Err
       ELSE IF ~property_name.ok THEN Err
       ELSE Ok([src_condition |-> src_condition.val, dst_condition |-> dst_condition.val,
                connection_type |-> connection_type.val,
                property_name |-> property_name.val])

\* One endpoint of CompiledEdgeFilterCondition::is_match: TRUE when the
\* sub-condition makes the whole match fail
EndpointFails(cond, id, nodes) ==
    IsSome(cond)
    /\ IF id \in DOMAIN nodes
       THEN ~CompiledNodeFilterCondition_is_match(Unwrap(cond), nodes[id])
       ELSE TRUE

\* One optional text field of CompiledEdgeFilterCondition::is_match
FieldFails(re, field) ==
    IsSome(re)
    /\ IF IsSome(field) THEN ~RegexIsMatch(Unwrap(re), Unwrap(field)) ELSE TRUE

\* mutant: an endpoint with no node is skipped instead of failing the match
CompiledEdgeFilterCondition_is_match_SkipMissing(c, edge, nodes) ==
    IF edge.parent \in DOMAIN nodes /\ EndpointFails(c.src_condition, edge.parent, nodes)
    THEN FALSE
    ELSE IF edge.child \in DOMAIN nodes /\ EndpointFails(c.dst_condition, edge.child, nodes)
    THEN FALSE
    ELSE IF FieldFails(c.connection_type, edge.data.connection_type) THEN FALSE
    ELSE IF FieldFails(c.property_name, edge.data.property_name) THEN FALSE
    ELSE TRUE

\* CompiledEdgeFilterCondition::is_match
CompiledEdgeFilterCondition_is_match(c, edge, nodes) ==
    IF EndpointFails(c.src_condition, edge.parent, nodes) THEN FALSE
    ELSE IF EndpointFails(c.dst_condition, edge.child, nodes) THEN FALSE
    ELSE IF FieldFails(c.connection_type, edge.data.connection_type) THEN FALSE
    ELSE IF FieldFails(c.property_name, edge.data.property_name) THEN FALSE
    ELSE TRUE

-----------------------------------------------------------------------------
(* Graph, Node, Edge *)

\* Node::new_with_data
Node_new_with_data(id, data) ==
    [id |-> id, visible |-> TRUE, styles |-> EmptyMap, data |-> data]

\* Node::new for fbx::Node: NodeData = Option<ObjectProperties> defaults to None
Node_new(id) == Node_new_with_data(id, None)

\* Edge::new_with_data
Edge_new_with_data(parent, child, data) ==
    [parent |-> parent, child |-> child, styles |-> EmptyMap, data |-> data]

\* EdgeData::default
EdgeData_default == [connection_type |-> None, property_name |-> None]

\* Edge::new
Edge_new(parent, child) == Edge_new_with_data(parent, child, EdgeData_default)

\* Graph::new (the name plays no part in what is modelled and is left out)
Graph_new ==
    [graph_styles |-> EmptyMap, node_styles |-> EmptyMap, edge_styles |-> EmptyMap,
     nodes |-> EmptyMap, edges |-> <<>>]

\* mutant: a node already stored under the identifier is kept
\* (entry(node.id).or_insert(node))
add_node_KeepExisting(g, node) ==
    IF node.id \in DOMAIN g.nodes THEN g ELSE [g EXCEPT !.nodes = MapInsert(g.nodes, node.id, node)]

\* Graph::add_node: the graph after the insert (the returned previous node is
\* PreviousNode)
add_node(g, node) == [g EXCEPT !.nodes = MapInsert(g.nodes, node.id, node)]

\* Graph::add_node: its return value
PreviousNode(g, node) == IF node.id \in DOMAIN g.nodes THEN Some(g.nodes[node.id]) ELSE None

\* Graph::add_edge
add_edge(g, edge) == [g EXCEPT !.edges = Append(g.edges, edge)]

\* ObjectProperties::new
ObjectProperties_new(uid, name, class, subclass) ==
    [uid |-> uid, name |-> name, class |-> class, subclass |-> subclass]

\* fbx::create_object_node: format!("{}::{}\\n{}\\n{}", class, name, subclass, uid)
create_object_node(obj_props) ==
    LET node == Node_new_with_data(obj_props.uid, Some(obj_props))
        label == obj_props.class \o <<":", ":">> \o obj_props.name \o <<"\\", "n">>
                 \o obj_props.subclass \o <<"\\", "n">> \o to_string(obj_props.uid)
    IN [node EXCEPT !.styles = MapInsert(@, S_label, label)]

\* fbx::traverse_connections: the edge made of one "C" record
ConnectionEdge(connection_type, child_uid, parent_uid, property_name) ==
    LET edge == [Edge_new(parent_uid, child_uid) EXCEPT !.data.connection_type = Some(connection_type)]
    IN IF IsSome(property_name)
       THEN [edge EXCEPT !.styles = MapInsert(@, S_label, Unwrap(property_name)),
                         !.data.property_name = property_name]
       ELSE edge

\* mutant: the closure also resets the node's styles
Fun_ResetStyles(fun, node) == [node EXCEPT !.visible = (fun = "show"), !.styles = EmptyMap]

\* mutant: the closure flips the flag (n.visible = !n.visible)
Fun_Toggle(fun, node) == [node EXCEPT !.visible = ~@]

\* The mutation closures of the callers: |n| n.visible = visibility
Fun(fun, node) == [node EXCEPT !.visible = (fun = "show")]

-----------------------------------------------------------------------------
(* Traversal: map_ascendant, map_descendant, map_parents, map_children.    *)
(* map_descendant is map_ascendant with parent and child exchanged, and    *)
(* map_children is map_parents likewise: dir is "up" for the first of each *)
(* pair and "down" for the second.                                         *)

Dir(name) == IF name \in {"map_ascendant", "map_parents"} THEN "up" ELSE "down"

\* `.filter(|e| e.child == i)` (up), `.filter(|e| e.parent == i)` (down)
Near(dir, e) == IF dir = "up" THEN e.child ELSE e.parent

\* `.map(|e| e.parent)` (up), `.map(|e| e.child)` (down)
Far(dir, e) == IF dir = "up" THEN e.parent ELSE e.child

\* The far ends of the edges whose near end is i, in edge order
RECURSIVE FarEnds(_, _, _)
FarEnds(edges, dir, i) ==
    IF edges = <<>> THEN <<>>
    ELSE (IF Near(dir, Head(edges)) = i THEN <<Far(dir, Head(edges))>> ELSE <<>>)
         \o FarEnds(Tail(edges), dir, i)

\* mutant: the seeds themselves are put in the first frontier
InitialFrontier_WithSeeds(edges, dir, targets) ==
    targets \cup UNION {Range(FarEnds(edges, dir, i)) : i \in targets}

\* `targets.into_iter().flat_map(..).collect::<HashSet<i64>>()`
InitialFrontier(edges, dir, targets) ==
    UNION {Range(FarEnds(edges, dir, i)) : i \in targets}

RECURSIVE FlatMap(_, _, _)
FlatMap(edges, dir, seeds) ==
    IF seeds = <<>> THEN <<>>
    ELSE FarEnds(edges, dir, Head(seeds)) \o FlatMap(edges, dir, Tail(seeds))

\* mutant: map_parents follows the edges the wrong way round
HopTargets_Reversed(edges, dir, targets) ==
    FlatMap(edges, IF dir = "up" THEN "down" ELSE "up", Ascending(targets))

\* `targets.into_iter().flat_map(..).collect::<Vec<i64>>()` of map_parents /
\* map_children; the seeds are taken in ascending order (the callers pass Some(id))
HopTargets(edges, dir, targets) == FlatMap(edges, dir, Ascending(targets))

\* mutant: a target without a node gets one (entry(target).or_insert_with(..))
MutateNode_InsertMissing(nodes, target, fun) ==
    IF target \in DOMAIN nodes THEN [nodes EXCEPT ![target] = Fun(fun, @)]
    ELSE MapInsert(nodes, target, Fun(fun, Node_new(target)))

\* `self.nodes.get_mut(&target).map(&fun)`
MutateNode(nodes, target, fun) ==
    IF target \in DOMAIN nodes THEN [nodes EXCEPT ![target] = Fun(fun, @)] ELSE nodes

\* mutant: `done.insert(target)` is lost
ProcessTarget_NoDoneInsert(st, dir, fun, edges, target) ==
    [nodes |-> MutateNode(st.nodes, target, fun),
     undone_next |-> st.undone_next \cup Range(FarEnds(edges, dir, target)),
     done |-> st.done,
     applied |-> TRUE]

\* The body of `for target in undone_current`; st is [nodes, done, undone_next],
\* and `applied` tells whether the body reached `get_mut(&target)`
ProcessTarget(st, dir, fun, edges, target) ==
    IF target \in st.done
    THEN [st EXCEPT !.applied = FALSE]
    ELSE [nodes |-> MutateNode(st.nodes, target, fun),
          undone_next |-> st.undone_next
                          \cup {p \in Range(FarEnds(edges, dir, target)) : p \notin st.done},
          done |-> st.done \cup {target},
          applied |-> TRUE]

\* The `for` loop of one round, run to its end
RECURSIVE ForLoop(_, _, _, _, _)
ForLoop(st, current, dir, fun, edges) ==
    IF current = {} THEN st
    ELSE LET target == CHOOSE x \in current : TRUE
         IN ForLoop(ProcessTarget(st, dir, fun, edges, target), current \ {target},
                    dir, fun, edges)

\* The `loop` of map_ascendant / map_descendant, run to its end
RECURSIVE Rounds(_, _, _, _)
Rounds(st, dir, fun, edges) ==
    LET after == ForLoop([st EXCEPT !.undone_next = {}], st.undone_next, dir, fun, edges)
    IN IF after.undone_next = {} THEN after ELSE Rounds(after, dir, fun, edges)

\* map_ascendant / map_descendant as one call: the graph when the call returns
Closure(g, dir, targets, fun) ==
    [g EXCEPT !.nodes =
        Rounds([nodes |-> g.nodes, done |-> {},
                undone_next |-> InitialFrontier(g.edges, dir, targets),
                applied |-> FALSE], dir, fun, g.edges).nodes]

RECURSIVE HopLoop(_, _, _)
HopLoop(nodes, targets, fun) ==
    IF targets = <<>> THEN nodes
    ELSE HopLoop(MutateNode(nodes, Head(targets), fun), Tail(targets), fun)

\* map_parents / map_children as one call
Hop(g, dir, targets, fun) ==
    [g EXCEPT !.nodes = HopLoop(g.nodes, HopTargets(g.edges, dir, targets), fun)]

map_ascendant(g, targets, fun) == Closure(g, "up", targets, fun)
map_descendant(g, targets, fun) == Closure(g, "down", targets, fun)
map_parents(g, targets, fun) == Hop(g, "up", targets, fun)
map_children(g, targets, fun) == Hop(g, "down", targets, fun)

-----------------------------------------------------------------------------
(* Operations. An operation is [name, args]: name is compared only (a      *)
(* TLA+ string), args is a Vec<Vec<String>>.                               *)

\* One arm of `match target.as_ref()` in "hide" | "show"
ApplyTarget(g, id, fun, target) ==
    IF target = T_self THEN [g EXCEPT !.nodes = MutateNode(g.nodes, id, fun)]
    ELSE IF target = T_ascendant THEN map_ascendant(g, {id}, fun)
    ELSE IF target = T_descendant THEN map_descendant(g, {id}, fun)
    ELSE IF target = T_parents THEN map_parents(g, {id}, fun)
    ELSE IF target = T_children THEN map_children(g, {id}, fun)
    ELSE g

\* mutant: an unknown target token ends the loop over the targets
ApplyTargets_StopAtUnknown(g, id, fun, targets) ==
    LET known == {T_self, T_ascendant, T_descendant, T_parents, T_children}
        RECURSIVE Go(_, _)
        Go(h, ts) ==
            IF ts = <<>> \/ Head(ts) \notin known THEN h
            ELSE Go(ApplyTarget(h, id, fun, Head(ts)), Tail(ts))
    IN Go(g, targets)

\* `for target in args`
RECURSIVE ApplyTargets(_, _, _, _)
ApplyTargets(g, id, fun, targets) ==
    IF targets = <<>> THEN g
    ELSE ApplyTargets(ApplyTarget(g, id, fun, Head(targets)), id, fun, Tail(targets))

\* mutant: a key already set by the operation is not set again (entry().or_insert)
UpdateAttr_FirstWins(styles, args) ==
    LET RECURSIVE Go(_, _, _)
        Go(st, as, set) ==
            IF as = <<>> THEN st
            ELSE IF Len(Head(as)) < 2 \/ Head(as)[1] \in set THEN Go(st, Tail(as), set)
            ELSE Go(MapInsert(st, Head(as)[1], Head(as)[2]), Tail(as), set \cup {Head(as)[1]})
    IN Go(styles, args, {})

\* "update-attr" on a styles map: `for arg in &op.args`
RECURSIVE UpdateAttr(_, _)
UpdateAttr(styles, args) ==
    IF args = <<>> THEN styles
    ELSE IF Len(Head(args)) < 2 THEN UpdateAttr(styles, Tail(args))
    ELSE UpdateAttr(MapInsert(styles, Head(args)[1], Head(args)[2]), Tail(args))

\* mutant: only the first name of the group is removed
RemoveAttr_FirstOnly(styles, names) ==
    IF names = <<>> THEN styles ELSE MapRemove(styles, Head(names))

\* "remove-attr" on a styles map: `for name in args`
RECURSIVE RemoveAttr(_, _)
RemoveAttr(styles, names) ==
    IF names = <<>> THEN styles
    ELSE RemoveAttr(MapRemove(styles, Head(names)), Tail(names))

\* `graph.nodes.get_mut(&id).map(|n| ..styles..)`
WithNodeStyles(g, id, styles) ==
    IF id \in DOMAIN g.nodes THEN [g EXCEPT !.nodes[id].styles = styles] ELSE g

RECURSIVE Flatten(_)
Flatten(groups) == IF groups = <<>> THEN <<>> ELSE Head(groups) \o Flatten(Tail(groups))

\* mutant: hide / show read every argument group
ApplyNodeOp_AllGroups(g, id, op) ==
    IF op.name \in {"hide", "show"}
    THEN ApplyTargets(g, id, op.name, Flatten(op.args))
    ELSE g

\* One operation of apply_node_operations: the body of `for op in ops`
ApplyNodeOp(g, id, op) ==
    IF op.name = "update-attr"
    THEN IF id \in DOMAIN g.nodes
         THEN WithNodeStyles(g, id, UpdateAttr(g.nodes[id].styles, op.args))
         ELSE g
    ELSE IF op.name = "remove-attr"
    THEN IF Len(op.args) >= 1 /\ id \in DOMAIN g.nodes
         THEN WithNodeStyles(g, id, RemoveAttr(g.nodes[id].styles, op.args[1]))
         ELSE g
    ELSE IF op.name \in {"hide", "show"}
    THEN IF Len(op.args) >= 1
         THEN ApplyTargets(g, id, op.name, op.args[1])
         ELSE g
    ELSE g

RECURSIVE ApplyNodeOps(_, _, _)
ApplyNodeOps(g, id, ops) ==
    IF ops = <<>> THEN g ELSE ApplyNodeOps(ApplyNodeOp(g, id, Head(ops)), id, Tail(ops))

\* Filters::apply_node_operations: `ops.iter().filter_map(|s| self.node_operations.get(s))`
RECURSIVE apply_node_operations(_, _, _, _)
apply_node_operations(node_operations, id, g, ops) ==
    IF ops = <<>> THEN g
    ELSE apply_node_operations(
             node_operations, id,
             IF Head(ops) \in DOMAIN node_operations
             THEN ApplyNodeOps(g, id, node_operations[Head(ops)])
             ELSE g,
             Tail(ops))

\* One operation of apply_edge_operation
ApplyEdgeOp(edge, op) ==
    IF op.name = "update-attr"
    THEN [edge EXCEPT !.styles = UpdateAttr(@, op.args)]
    ELSE IF op.name = "remove-attr"
    THEN IF Len(op.args) >= 1
         THEN [edge EXCEPT !.styles = RemoveAttr(@, op.args[1])]
         ELSE edge
    ELSE edge

RECURSIVE ApplyEdgeOps(_, _)
ApplyEdgeOps(edge, ops) ==
    IF ops = <<>> THEN edge ELSE ApplyEdgeOps(ApplyEdgeOp(edge, Head(ops)), Tail(ops))

\* Filters::apply_edge_operation
RECURSIVE apply_edge_operation(_, _, _)
apply_edge_operation(edge_operations, edge, ops) ==
    IF ops = <<>> THEN edge
    ELSE apply_edge_operation(
             edge_operations,
             IF Head(ops) \in DOMAIN edge_operations
             THEN ApplyEdgeOps(edge, edge_operations[Head(ops)])
             ELSE edge,
             Tail(ops))

-----------------------------------------------------------------------------
(* The traversal calls, step by step (TravSpec): any graph over TravIds    *)
(* with at most MaxEdges edges, any set of registered nodes, any seed set. *)

MaxEdges == 3
CallCap == 2

TravIds == {0, 1, 2}

EdgeRank(e) == e.parent * 100 + e.child

\* Edge lists up to reordering: the traversals only filter the edge list
TravEdgeLists ==
    {s \in UNION {[1..n -> {Edge_new(p, c) : p \in TravIds, c \in TravIds}] : n \in 0..MaxEdges} :
        \A i \in 1..(Len(s) - 1) : EdgeRank(s[i]) <= EdgeRank(s[i + 1])}

TravGraphs ==
    {[Graph_new EXCEPT !.nodes = [i \in reg |-> Node_new(i)], !.edges = es] :
        reg \in SUBSET TravIds, es \in TravEdgeLists}

TravCalls ==
    [name : {"map_ascendant", "map_descendant", "map_parents", "map_children"},
     targets : SUBSET TravIds,
     fun : {"hide"}]

IsClosureCall == call.name \in {"map_ascendant", "map_descendant"}

TravInit ==
    /\ graph \in TravGraphs
    /\ graph0 = graph
    /\ call \in TravCalls
    /\ pc = "call"
    /\ done = {}
    /\ undone_next = {}
    /\ undone_current = IF IsClosureCall THEN {} ELSE <<>>
    /\ fun_calls = [i \in TravIds |-> 0]
    /\ filters = <<>> /\ ni = 0 /\ target_uids = <<>> /\ ei = 0 /\ target_edges = <<>>
    /\ log = <<>> /\ input = <<>> /\ output = <<>>

Count(calls, target) ==
    [calls EXCEPT ![target] = IF @ < CallCap THEN @ + 1 ELSE @]

\* mutant: the seeds start out in `done`
ClosureBegin_SeedsDone ==
    /\ pc = "call" /\ IsClosureCall
    /\ done' = call.targets
    /\ undone_next' = InitialFrontier(graph.edges, Dir(call.name), call.targets)
    /\ pc' = "loop"
    /\ UNCHANGED <<graph, graph0, call, undone_current, fun_calls, applyVars, ioVars>>

\* map_ascendant / map_descendant, lines 40-52 / 85-97
ClosureBegin ==
    /\ pc = "call" /\ IsClosureCall
    /\ done' = {}
    /\ undone_next' = InitialFrontier(graph.edges, Dir(call.name), call.targets)
    /\ pc' = "loop"
    /\ UNCHANGED <<graph, graph0, call, undone_current, fun_calls, applyVars, ioVars>>

\* `let undone_current = undone_next; undone_next = HashSet::new();`
ClosureRound ==
    /\ pc = "loop"
    /\ undone_current' = undone_next
    /\ undone_next' = {}
    /\ pc' = "for"
    /\ UNCHANGED <<graph, graph0, call, done, fun_calls, applyVars, ioVars>>

\* One iteration of `for target in undone_current`: a HashSet yields its
\* elements in any order
ClosureTarget ==
    /\ pc = "for"
    /\ \E target \in undone_current :
        LET st == ProcessTarget([nodes |-> graph.nodes, done |-> done,
                                 undone_next |-> undone_next, applied |-> FALSE],
                                Dir(call.name), call.fun, graph.edges, target)
        IN /\ graph' = [graph EXCEPT !.nodes = st.nodes]
           /\ done' = st.done
           /\ undone_next' = st.undone_next
           /\ undone_current' = undone_current \ {target}
           /\ fun_calls' = IF st.applied /\ target \in DOMAIN graph.nodes
                           THEN Count(fun_calls, target) ELSE fun_calls
    /\ UNCHANGED <<pc, graph0, call, applyVars, ioVars>>

\* `if undone_next.is_empty() { break; }`
ClosureRoundEnd ==
    /\ pc = "for" /\ undone_current = {}
    /\ pc' = IF undone_next = {} THEN "returned" ELSE "loop"
    /\ UNCHANGED <<graph, graph0, call, done, undone_next, undone_current, fun_calls,
                   applyVars, ioVars>>

\* map_parents / map_children, lines 131-141 / 154-164
HopBegin ==
    /\ pc = "call" /\ ~IsClosureCall
    /\ undone_current' = HopTargets(graph.edges, Dir(call.name), call.targets)
    /\ pc' = "hop"
    /\ UNCHANGED <<graph, graph0, call, done, undone_next, fun_calls, applyVars, ioVars>>

\* One iteration of `for target in targets`
HopTarget ==
    /\ pc = "hop" /\ undone_current # <<>>
    /\ LET target == Head(undone_current)
       IN /\ graph' = [graph EXCEPT !.nodes = MutateNode(graph.nodes, target, call.fun)]
          /\ fun_calls' = IF target \in DOMAIN graph.nodes
                          THEN Count(fun_calls, target) ELSE fun_calls
    /\ undone_current' = Tail(undone_current)
    /\ UNCHANGED <<pc, graph0, call, done, undone_next, applyVars, ioVars>>

HopEnd ==
    /\ pc = "hop" /\ undone_current = <<>>
    /\ pc' = "returned"
    /\ UNCHANGED <<graph, graph0, call, done, undone_next, undone_current, fun_calls,
                   applyVars, ioVars>>

TravNext ==
    \/ ClosureBegin
    \/ ClosureRound
    \/ ClosureTarget
    \/ ClosureRoundEnd
    \/ HopBegin
    \/ HopTarget
    \/ HopEnd

\* The program is sequential: a call that can take a step takes it
TravSpec == TravInit /\ [][TravNext]_vars /\ WF_vars(TravNext)

\* The ids reached from the seeds along one or more edges in direction dir:
\* there is a walk seed = w[1], .., w[k + 1] = n with k >= 1 edges (a shortest
\* one repeats no edge end, so k need not exceed the number of ids)
Walks(ids) == UNION {[1..(k + 1) -> ids] : k \in 1..Cardinality(ids)}

IdsOf(g) == DOMAIN g.nodes \cup {g.edges[i].parent : i \in DOMAIN g.edges}
                          \cup {g.edges[i].child : i \in DOMAIN g.edges}

Reached(g, dir, targets) ==
    {n \in IdsOf(g) :
        \E w \in Walks(IdsOf(g) \cup targets) :
            /\ w[1] \in targets
            /\ w[Len(w)] = n
            /\ \A j \in 1..(Len(w) - 1) :
                \E i \in DOMAIN g.edges :
                    Near(dir, g.edges[i]) = w[j] /\ Far(dir, g.edges[i]) = w[j + 1]}

\* The far ends of the edges whose near end is a seed
OneHop(g, dir, targets) ==
    {Far(dir, g.edges[i]) : i \in {i \in DOMAIN g.edges : Near(dir, g.edges[i]) \in targets}}

\* The step-by-step calls and the calls taken as one step (Closure, Hop, used
\* by the operations) end in the same graph, whatever order the HashSet yields
StepsAgreeWithCall ==
    (pc = "returned") =>
        graph = IF IsClosureCall
                THEN Closure(graph0, Dir(call.name), call.targets, call.fun)
                ELSE Hop(graph0, Dir(call.name), call.targets, call.fun)

\* C1: map_ascendant and map_descendant (and the single-hop calls) return on
\* every graph and seed set, cycles, self-loops and duplicate edges included.
C1_Terminates == <>(pc = "returned")

\* C1 witness: a call returned on a graph holding a cycle and a duplicate edge
C1_Witness ==
    /\ pc = "returned" /\ IsClosureCall
    /\ \E i, j \in DOMAIN graph.edges :
        /\ i # j
        /\ graph.edges[i].parent = graph.edges[j].child
        /\ graph.edges[i].child = graph.edges[j].parent
    /\ \E i, j \in DOMAIN graph.edges : i # j /\ graph.edges[i] = graph.edges[j]
    /\ \E n \in DOMAIN fun_calls : fun_calls[n] = 1

\* C2: when map_ascendant (map_descendant) returns, the mutation has run
\* exactly once on every registered node reached from a seed along one or more
\* child->parent (parent->child) edges and never on any other node; at no
\* moment has it run twice on a node.
C2_ExactlyOnce ==
    IsClosureCall =>
        /\ \A n \in DOMAIN fun_calls : fun_calls[n] <= 1
        /\ pc = "returned" =>
            \A n \in DOMAIN graph.nodes :
                /\ fun_calls[n] = IF n \in Reached(graph, Dir(call.name), call.targets)
                                  THEN 1 ELSE 0
                /\ graph.nodes[n].visible = (fun_calls[n] = 0)

\* C2 witness: a returned call on a graph with a cycle through a seed, a node
\* mutated once, and a registered node left alone
C2_Witness ==
    /\ pc = "returned" /\ IsClosureCall
    /\ \E s \in call.targets : s \in Reached(graph, Dir(call.name), {s})
                               /\ s \in DOMAIN graph.nodes /\ fun_calls[s] = 1
    /\ \E n \in DOMAIN graph.nodes : fun_calls[n] = 0
    /\ \E i, j \in DOMAIN graph.edges : i # j /\ graph.edges[i] = graph.edges[j]

\* C10: when map_parents (map_children) returns, the mutation has run on
\* exactly the registered nodes that are the parent (child) end of an edge
\* whose child (parent) is a seed; a far end with no node is skipped and the
\* call still returns; before that, it has run on no other node.
C10_SingleHop ==
    ~IsClosureCall =>
        /\ \A n \in DOMAIN fun_calls :
            fun_calls[n] > 0 =>
                n \in DOMAIN graph.nodes /\ n \in OneHop(graph, Dir(call.name), call.targets)
        /\ pc = "returned" =>
            /\ \A n \in DOMAIN graph.nodes :
                (fun_calls[n] > 0) <=> n \in OneHop(graph, Dir(call.name), call.targets)
            /\ \A n \in DOMAIN graph.nodes : graph.nodes[n].visible = (fun_calls[n] = 0)
            /\ DOMAIN graph.nodes = DOMAIN graph0.nodes

\* C10 witness: a returned single-hop call that skipped an unregistered far
\* end, mutated a node, and left alone a node two hops away
C10_Witness ==
    /\ pc = "returned" /\ ~IsClosureCall
    /\ \E n \in OneHop(graph, Dir(call.name), call.targets) : n \notin DOMAIN graph.nodes
    /\ \E n \in DOMAIN graph.nodes : fun_calls[n] > 0
    /\ \E n \in DOMAIN graph.nodes :
        /\ fun_calls[n] = 0
        /\ n \in Reached(graph, Dir(call.name), call.targets)

-----------------------------------------------------------------------------
(* The conditions on their own (MatchSpec): a condition is compiled and    *)
(* evaluated against one node, or one edge of a graph with nodes 1 and 2.  *)

Anchored(str) == <<"^">> \o str \o <<"$">>

\* An object as the decoder hands it over, made a node
ObjectNode(uid, name, class, subclass) ==
    create_object_node(ObjectProperties_new(uid, name, class, subclass))

MatchNodeConds ==
    [class : {None, Some(Anchored(S_Model)), Some(<<"M">>)},
     subclass : {None, Some(S_Empty)},
     name : {None, Some(<<"e">>), Some(<<"(">>)},
     uid : {None, Some(<<"1">>), Some(Anchored(<<"1">>))}]

MatchSpecNodes ==
    {[n EXCEPT !.visible = v] :
        v \in BOOLEAN,
        n \in UNION {{Node_new(i), ObjectNode(i, S_Cube, S_Model, S_Mesh),
                      ObjectNode(i, S_Red, S_Material, S_Empty)} : i \in {0, 1, 12, -1}}}

NoCondition == [class |-> None, subclass |-> None, name |-> None, uid |-> None]

MatchEdgeConds ==
    [src_condition : {None, Some(NoCondition),
                      Some([NoCondition EXCEPT !.class = Some(Anchored(S_Model))])},
     dst_condition : {None, Some(NoCondition),
                      Some([NoCondition EXCEPT !.uid = Some(<<"2">>)]),
                      Some([NoCondition EXCEPT !.name = Some(<<")">>)])},
     connection_type : {None, Some(Anchored(S_OO)), Some(<<"O">>)},
     property_name : {None, Some(<<"i", "f">>)}]

MatchSpecEdges ==
    {Edge_new_with_data(p, c, [connection_type |-> t, property_name |-> n]) :
        p \in {1, 2, 99}, c \in {1, 2, 99},
        t \in {None, Some(S_OO), Some(S_OP)}, n \in {None, Some(S_Prop)}}

MatchGraph ==
    add_node(add_node(Graph_new, ObjectNode(1, S_Cube, S_Model, S_Mesh)),
             ObjectNode(2, S_Red, S_Material, S_Empty))

MatchInit ==
    /\ graph = MatchGraph
    /\ graph0 = graph
    /\ pc = "match"
    /\ input \in [kind : {"node"}, cond : MatchNodeConds, node : MatchSpecNodes]
                 \cup [kind : {"edge"}, cond : MatchEdgeConds, edge : MatchSpecEdges]
    /\ output = <<>>
    /\ filters = <<>> /\ ni = 0 /\ target_uids = <<>> /\ ei = 0 /\ target_edges = <<>>
    /\ log = <<>> /\ call = <<>> /\ done = {} /\ undone_next = {} /\ undone_current = {}
    /\ fun_calls = <<>>

\* `f.condition.compile()?` then `cond.is_match(node)`
MatchNode ==
    /\ pc = "match" /\ input.kind = "node"
    /\ LET c == NodeFilterCondition_compile(input.cond)
       IN output' = IF c.ok
                    THEN [compiled |-> TRUE,
                          matched |-> CompiledNodeFilterCondition_is_match(c.val, input.node)]
                    ELSE [compiled |-> FALSE, matched |-> FALSE]
    /\ pc' = "matched"
    /\ UNCHANGED <<graph, graph0, input, applyVars, travVars>>

\* `f.condition.compile()?` then `cond.is_match(edge, nodes)`
MatchEdge ==
    /\ pc = "match" /\ input.kind = "edge"
    /\ LET c == EdgeFilterCondition_compile(input.cond)
       IN output' = IF c.ok
                    THEN [compiled |-> TRUE,
                          matched |-> CompiledEdgeFilterCondition_is_match(
                                          c.val, input.edge, graph.nodes)]
                    ELSE [compiled |-> FALSE, matched |-> FALSE]
    /\ pc' = "matched"
    /\ UNCHANGED <<graph, graph0, input, applyVars, travVars>>

MatchNext == MatchNode \/ MatchEdge

MatchSpec == MatchInit /\ [][MatchNext]_vars

\* A pattern found somewhere in a text
Found(pattern, text) == RegexIsMatch(RegexNew(pattern).val, text)

\* C7: a node condition matches a node iff every specified sub-condition
\* holds: class, subclass and name need a payload whose field the pattern is
\* found in (so a payload-less node fails them whatever the pattern), and the
\* identifier pattern is found in the decimal identifier, payload or not.
C7_NodeMatch ==
    (pc = "matched" /\ input.kind = "node" /\ output.compiled) =>
        LET c == input.cond
            n == input.node
        IN output.matched <=>
            /\ \A f \in {"class", "subclass", "name"} :
                IsSome(c[f]) => IsSome(n.data) /\ Found(Unwrap(c[f]), Unwrap(n.data)[f])
            /\ IsSome(c.uid) => Found(Unwrap(c.uid), to_string(n.id))

\* C7 witness: a payload-less node matched an identifier-only condition, by
\* search in "12"
C7_Witness ==
    /\ pc = "matched" /\ input.kind = "node" /\ output.compiled /\ output.matched
    /\ ~IsSome(input.node.data)
    /\ input.node.id = 12
    /\ input.cond = [NoCondition EXCEPT !.uid = Some(<<"1">>)]

\* C8: an edge condition matches an edge iff every specified sub-condition
\* holds: source (destination) needs a node under the edge's parent (child)
\* identifier, and that node to match, even for a sub-condition with no
\* pattern; connection type and property name need the field present and the
\* pattern found in it. A missing endpoint gives a non-match, not an error.
C8_EdgeMatch ==
    (pc = "matched" /\ input.kind = "edge" /\ output.compiled) =>
        LET c == input.cond
            e == input.edge
            EndOk(o, id) ==
                IsSome(o) =>
                    /\ id \in DOMAIN graph.nodes
                    /\ CompiledNodeFilterCondition_is_match(
                           NodeFilterCondition_compile(Unwrap(o)).val, graph.nodes[id])
            FieldOk(o, field) == IsSome(o) => IsSome(field) /\ Found(Unwrap(o), Unwrap(field))
        IN output.matched <=>
            /\ EndOk(c.src_condition, e.parent)
            /\ EndOk(c.dst_condition, e.child)
            /\ FieldOk(c.connection_type, e.data.connection_type)
            /\ FieldOk(c.property_name, e.data.property_name)

\* C8 witness: a source sub-condition with no pattern made the match fail
\* because the edge's parent has no node
C8_Witness ==
    /\ pc = "matched" /\ input.kind = "edge" /\ output.compiled /\ ~output.matched
    /\ input.cond = [src_condition |-> Some(NoCondition), dst_condition |-> None,
                     connection_type |-> None, property_name |-> None]
    /\ input.edge.parent \notin DOMAIN graph.nodes

-----------------------------------------------------------------------------
(* One operation on one matched node (OpSpec): any graph of TravGraphs,    *)
(* all of its nodes visible or all hidden, any registered node.            *)

OpArgs ==
    {<<>>, <<<<>>>>, <<<<T_self>>>>, <<<<T_ascendant>>>>, <<<<T_descendant>>>>,
     <<<<T_parents>>>>, <<<<T_children>>>>, <<<<T_self, T_descendant>>>>,
     <<<<T_parents, T_siblings, T_children>>>>, <<<<T_self>>, <<T_ascendant>>>>,
     <<<<>>, <<T_self>>>>}

OpNodeOps == [name : {"hide", "show"}, args : OpArgs]

OpInit ==
    /\ \E g \in TravGraphs, v \in BOOLEAN :
        graph = [g EXCEPT !.nodes = [i \in DOMAIN g.nodes |-> [g.nodes[i] EXCEPT !.visible = v]]]
    /\ graph0 = graph
    /\ pc = "op"
    /\ input \in [id : DOMAIN graph.nodes, op : OpNodeOps]
    /\ output = <<>>
    /\ filters = <<>> /\ ni = 0 /\ target_uids = <<>> /\ ei = 0 /\ target_edges = <<>>
    /\ log = <<>> /\ call = <<>> /\ done = {} /\ undone_next = {} /\ undone_current = {}
    /\ fun_calls = <<>>

\* One pass of `for op in ops` in apply_node_operations
NodeOp ==
    /\ pc = "op"
    /\ graph' = ApplyNodeOp(graph, input.id, input.op)
    /\ pc' = "op_done"
    /\ UNCHANGED <<graph0, ioVars, applyVars, travVars>>

OpNext == NodeOp

OpSpec == OpInit /\ [][OpNext]_vars

\* The nodes one target token stands for, seeded with the matched node
TokenNodes(g, id, token) ==
    IF token = T_self THEN {id}
    ELSE IF token = T_ascendant THEN Reached(g, "up", {id})
    ELSE IF token = T_descendant THEN Reached(g, "down", {id})
    ELSE IF token = T_parents THEN OneHop(g, "up", {id})
    ELSE IF token = T_children THEN OneHop(g, "down", {id})
    ELSE {}

FirstGroupNodes(g, id, args) ==
    IF args = <<>> THEN {} ELSE UNION {TokenNodes(g, id, t) : t \in Range(args[1])}

\* C9: hide (show) sets visibility to false (true) on exactly the nodes the
\* tokens of its first argument group stand for: self is the matched node
\* alone, the other four are the nodes of the corresponding traversal seeded
\* with the matched node; later groups are not read, and nothing but
\* visibility changes.
C9_HideShow ==
    (pc = "op_done" /\ input.op.name \in {"hide", "show"}) =>
        /\ \A n \in DOMAIN graph.nodes :
            graph.nodes[n].visible =
                IF n \in FirstGroupNodes(graph0, input.id, input.op.args)
                THEN input.op.name = "show"
                ELSE graph0.nodes[n].visible
        /\ [graph EXCEPT !.nodes = graph0.nodes] = graph0
        /\ DOMAIN graph.nodes = DOMAIN graph0.nodes
        /\ \A n \in DOMAIN graph.nodes :
            [graph.nodes[n] EXCEPT !.visible = graph0.nodes[n].visible] = graph0.nodes[n]

\* C9 witness: hide with groups [self] and [ascendant] hid the matched node
\* and left a registered ascendant visible
C9_Witness ==
    /\ pc = "op_done"
    /\ input.op = [name |-> "hide", args |-> <<<<T_self>>, <<T_ascendant>>>>]
    /\ ~graph.nodes[input.id].visible
    /\ \E n \in Reached(graph0, "up", {input.id}) \cap DOMAIN graph.nodes :
        n # input.id /\ graph.nodes[n].visible

-----------------------------------------------------------------------------
(* Filters::apply, step by step (Spec). The graph is built the way main    *)
(* and fbx::traverse build it; the Filters value is drawn from rule menus. *)

MaxNodeRules == 2
MaxEdgeRules == 1

SeqsUpTo(S, n) == UNION {[1..k -> S] : k \in 0..n}

Operation(name, args) == [name |-> name, args |-> args]

\* Filters::node_operations of the configurations studied
NodeOperations ==
    [hide_self |-> <<Operation("hide", <<<<T_self>>>>)>>,
     show_self |-> <<Operation("show", <<<<T_self>>>>)>>,
     hide_desc |-> <<Operation("hide", <<<<T_descendant>>>>)>>,
     paint |-> <<Operation("update-attr", <<<<S_color, S_red>>, <<S_shape>>>>)>>,
     strip |-> <<Operation("remove-attr", <<<<S_label, S_shape>>>>)>>,
     mixed |-> <<Operation("frobnicate", <<<<T_self>>>>),
                 Operation("show", <<<<T_parents, T_siblings>>>>),
                 Operation("update-attr", <<<<S_color, S_blue>>>>)>>]

\* Filters::edge_operations of the configurations studied
EdgeOperations ==
    [paint |-> <<Operation("update-attr", <<<<S_color, S_red>>>>)>>,
     strip |-> <<Operation("remove-attr", <<<<S_label>>>>)>>,
     hide |-> <<Operation("hide", <<<<T_self>>>>)>>]

NodeRuleMenu ==
    {[condition |-> [NoCondition EXCEPT !.class = Some(Anchored(S_Model))],
      operations |-> <<"hide_self">>],
     [condition |-> NoCondition,
      operations |-> <<"show_self", "paint">>],
     [condition |-> [NoCondition EXCEPT !.uid = Some(<<"1">>)],
      operations |-> <<"hide_desc">>],
     [condition |-> [NoCondition EXCEPT !.name = Some(<<"e">>)],
      operations |-> <<"missing", "mixed", "strip">>],
     [condition |-> [NoCondition EXCEPT !.subclass = Some(<<"(">>)],
      operations |-> <<"hide_self">>]}

NoEdgeCondition ==
    [src_condition |-> None, dst_condition |-> None,
     connection_type |-> None, property_name |-> None]

EdgeRuleMenu ==
    {[condition |-> [NoEdgeCondition EXCEPT !.connection_type = Some(Anchored(S_OO))],
      operations |-> <<"paint">>],
     [condition |-> [NoEdgeCondition EXCEPT
                        !.src_condition = Some([NoCondition EXCEPT !.class = Some(<<"M">>)]),
                        !.dst_condition = Some(NoCondition)],
      operations |-> <<"strip", "hide">>],
     [condition |-> [NoEdgeCondition EXCEPT !.property_name = Some(<<"(">>)],
      operations |-> <<"paint">>]}

StyleOverlays ==
    {[graph_styles |-> EmptyMap, node_styles |-> EmptyMap, edge_styles |-> EmptyMap],
     [graph_styles |-> MapInsert(EmptyMap, S_label, S_Cube),
      node_styles |-> MapInsert(EmptyMap, S_shape, S_box),
      edge_styles |-> MapInsert(EmptyMap, S_color, S_blue)]}

ApplyFilters ==
    {[graph_styles |-> o.graph_styles, node_styles |-> o.node_styles,
      edge_styles |-> o.edge_styles,
      node_operations |-> NodeOperations, edge_operations |-> EdgeOperations,
      node_filters |-> nf, edge_filters |-> ef, show_implicit_nodes |-> None] :
        o \in StyleOverlays,
        nf \in SeqsUpTo(NodeRuleMenu, MaxNodeRules),
        ef \in SeqsUpTo(EdgeRuleMenu, MaxEdgeRules)}

RECURSIVE AddEdges(_, _)
AddEdges(g, es) == IF es = <<>> THEN g ELSE AddEdges(add_edge(g, Head(es)), Tail(es))

\* main: the implicit root node 0, then the objects of the document
ObjectsGraph ==
    add_node(add_node(add_node(Graph_new, Node_new(0)),
                      ObjectNode(1, S_Cube, S_Model, S_Mesh)),
             ObjectNode(2, S_Red, S_Material, S_Empty))

ApplyGraphs ==
    {AddEdges(ObjectsGraph, <<ConnectionEdge(S_OO, 2, 1, None)>>),
     AddEdges(ObjectsGraph, <<ConnectionEdge(S_OO, 1, 0, None),
                              ConnectionEdge(S_OP, 2, 1, Some(S_Prop)),
                              ConnectionEdge(S_OO, 1, 2, None),
                              ConnectionEdge(S_OO, 99, 1, None)>>),
     AddEdges(ObjectsGraph, <<ConnectionEdge(S_OO, 1, 0, None),
                              ConnectionEdge(S_OO, 2, 0, None),
                              ConnectionEdge(S_OP, 2, 1, Some(S_Prop)),
                              ConnectionEdge(S_OP, 2, 1, Some(S_Prop))>>)}

Init ==
    /\ graph \in ApplyGraphs
    /\ graph0 = graph
    /\ filters \in ApplyFilters
    /\ pc = "apply"
    /\ ni = 0 /\ target_uids = <<>> /\ ei = 0 /\ target_edges = <<>>
    /\ log = <<>>
    /\ call = <<>> /\ done = {} /\ undone_next = {} /\ undone_current = {}
    /\ fun_calls = <<>> /\ input = <<>> /\ output = <<>>

Event(ev, rule, set, one, nodes) ==
    [ev |-> ev, rule |-> rule, set |-> set, one |-> one, nodes |-> nodes]

\* `for (name, value) in &self.f { graph.f.insert(name.clone(), value.clone()); }`
Overlay(defaults, overlay) ==
    [k \in (DOMAIN defaults) \cup (DOMAIN overlay) |->
        IF k \in DOMAIN overlay THEN overlay[k] ELSE defaults[k]]

\* Filters::apply, lines 20-28, as a function of the graph
WithStyleDefaults(g, f) ==
    [g EXCEPT !.node_styles = Overlay(@, f.node_styles),
              !.edge_styles = Overlay(@, f.edge_styles),
              !.graph_styles = Overlay(@, f.graph_styles)]

\* Filters::apply, lines 20-28
CopyStyleDefaults ==
    /\ pc = "apply"
    /\ graph' = WithStyleDefaults(graph, filters)
    /\ pc' = "compile_nodes"
    /\ UNCHANGED <<graph0, applyVars, travVars, ioVars>>

\* `.collect::<Result<Vec<_>, _>>()` over the node filters
NodeFiltersCompile(f) ==
    \A i \in DOMAIN f.node_filters : NodeFilterCondition_compile(f.node_filters[i].condition).ok

\* `.collect::<Result<Vec<_>, _>>()` over the edge filters
EdgeFiltersCompile(f) ==
    \A i \in DOMAIN f.edge_filters : EdgeFilterCondition_compile(f.edge_filters[i].condition).ok

\* node_conditions[i].0
NodeCondition(f, i) == NodeFilterCondition_compile(f.node_filters[i].condition).val

\* edge_conditions[i].0
EdgeCondition(f, i) == EdgeFilterCondition_compile(f.edge_filters[i].condition).val

\* Filters::apply, lines 32-37: `.unwrap()` panics on the first pattern that
\* does not compile
CompileNodeFilters ==
    /\ pc = "compile_nodes"
    /\ IF NodeFiltersCompile(filters)
       THEN pc' = "node_rule" /\ ni' = 1
       ELSE pc' = "panicked" /\ ni' = ni
    /\ UNCHANGED <<graph, graph0, filters, target_uids, ei, target_edges, log, travVars, ioVars>>

\* `graph.nodes.iter().filter(|&(_, node)| cond.is_match(node)).map(|(&uid, _)| uid)`
MatchingUids(cond, nodes) ==
    {uid \in DOMAIN nodes : CompiledNodeFilterCondition_is_match(cond, nodes[uid])}

\* mutant: the matches are taken largest identifier first (.rev())
MatchNodes_Descending ==
    /\ pc = "node_rule" /\ ni <= Len(filters.node_filters)
    /\ LET uids == MatchingUids(NodeCondition(filters, ni), graph.nodes)
           asc == Ascending(uids)
       IN /\ target_uids' = [k \in DOMAIN asc |-> asc[Len(asc) + 1 - k]]
          /\ log' = Append(log, Event("match_nodes", ni, uids, 0, graph.nodes))
    /\ pc' = "node_targets"
    /\ UNCHANGED <<graph, graph0, filters, ni, ei, target_edges, travVars, ioVars>>

\* Filters::apply, lines 40-45
MatchNodes ==
    /\ pc = "node_rule" /\ ni <= Len(filters.node_filters)
    /\ LET uids == MatchingUids(NodeCondition(filters, ni), graph.nodes)
       IN /\ target_uids' = Ascending(uids)
          /\ log' = Append(log, Event("match_nodes", ni, uids, 0, graph.nodes))
    /\ pc' = "node_targets"
    /\ UNCHANGED <<graph, graph0, filters, ni, ei, target_edges, travVars, ioVars>>

\* Filters::apply, lines 46-48: one iteration of `for uid in target_uids`
ApplyNodeTarget ==
    /\ pc = "node_targets" /\ target_uids # <<>>
    /\ graph' = apply_node_operations(filters.node_operations, Head(target_uids), graph,
                                      filters.node_filters[ni].operations)
    /\ target_uids' = Tail(target_uids)
    /\ log' = Append(log, Event("node_ops", ni, {}, Head(target_uids), <<>>))
    /\ UNCHANGED <<pc, graph0, filters, ni, ei, target_edges, travVars, ioVars>>

\* mutant: the loop over the matches is left after the first one
NodeRuleEnd_Break ==
    /\ pc = "node_targets" /\ (target_uids = <<>> \/ log[Len(log)].ev = "node_ops")
    /\ ni' = ni + 1
    /\ target_uids' = <<>>
    /\ pc' = "node_rule"
    /\ UNCHANGED <<graph, graph0, filters, ei, target_edges, log, travVars, ioVars>>

\* Filters::apply, line 39: the next `(cond, op_names)` of `&node_conditions`
NodeRuleEnd ==
    /\ pc = "node_targets" /\ target_uids = <<>>
    /\ ni' = ni + 1
    /\ target_uids' = <<>>
    /\ pc' = "node_rule"
    /\ UNCHANGED <<graph, graph0, filters, ei, target_edges, log, travVars, ioVars>>

\* mutant: the edge filters are taken up while node rules are pending
CompileEdgeFilters_Early ==
    /\ pc = "node_rule"
    /\ IF EdgeFiltersCompile(filters)
       THEN pc' = "edge_rule" /\ ei' = 1
       ELSE pc' = "panicked" /\ ei' = ei
    /\ UNCHANGED <<graph, graph0, filters, ni, target_uids, target_edges, log, travVars, ioVars>>

\* Filters::apply, lines 53-58, reached when the node rules are exhausted
CompileEdgeFilters ==
    /\ pc = "node_rule" /\ ni > Len(filters.node_filters)
    /\ IF EdgeFiltersCompile(filters)
       THEN pc' = "edge_rule" /\ ei' = 1
       ELSE pc' = "panicked" /\ ei' = ei
    /\ UNCHANGED <<graph, graph0, filters, ni, target_uids, target_edges, log, travVars, ioVars>>

\* `edges.iter_mut().filter(|edge| cond.is_match(edge, nodes))`, as positions
MatchingEdges(cond, edges, nodes) ==
    {i \in DOMAIN edges : CompiledEdgeFilterCondition_is_match(cond, edges[i], nodes)}

\* Filters::apply, lines 61-65
MatchEdges ==
    /\ pc = "edge_rule" /\ ei <= Len(filters.edge_filters)
    /\ LET idx == MatchingEdges(EdgeCondition(filters, ei), graph.edges, graph.nodes)
       IN /\ target_edges' = Ascending(idx)
          /\ log' = Append(log, Event("match_edges", ei, idx, 0, graph.nodes))
    /\ pc' = "edge_targets"
    /\ UNCHANGED <<graph, graph0, filters, ni, target_uids, ei, travVars, ioVars>>

\* Filters::apply, lines 66-68: one iteration of `for target_edge in target_edges`
ApplyEdgeTarget ==
    /\ pc = "edge_targets" /\ target_edges # <<>>
    /\ graph' = [graph EXCEPT !.edges[Head(target_edges)] =
                    apply_edge_operation(filters.edge_operations, @,
                                         filters.edge_filters[ei].operations)]
    /\ target_edges' = Tail(target_edges)
    /\ log' = Append(log, Event("edge_ops", ei, {}, Head(target_edges), <<>>))
    /\ UNCHANGED <<pc, graph0, filters, ni, target_uids, ei, travVars, ioVars>>

\* Filters::apply, line 60: the next `(cond, op_names)` of `&edge_conditions`
EdgeRuleEnd ==
    /\ pc = "edge_targets" /\ target_edges = <<>>
    /\ ei' = ei + 1
    /\ pc' = "edge_rule"
    /\ UNCHANGED <<graph, graph0, filters, ni, target_uids, target_edges, log, travVars, ioVars>>

\* Filters::apply, line 71
Return ==
    /\ pc = "edge_rule" /\ ei > Len(filters.edge_filters)
    /\ pc' = "done"
    /\ UNCHANGED <<graph, graph0, applyVars, travVars, ioVars>>

Next ==
    \/ CopyStyleDefaults
    \/ CompileNodeFilters
    \/ MatchNodes
    \/ ApplyNodeTarget
    \/ NodeRuleEnd
    \/ CompileEdgeFilters
    \/ MatchEdges
    \/ ApplyEdgeTarget
    \/ EdgeRuleEnd
    \/ Return

Spec == Init /\ [][Next]_vars

-----------------------------------------------------------------------------
(* Filters::apply: what the rules amount to, rule by rule                  *)

RECURSIVE ApplyToAll(_, _, _, _)
ApplyToAll(f, g, uids, ops) ==
    IF uids = <<>> THEN g
    ELSE ApplyToAll(f, apply_node_operations(f.node_operations, Head(uids), g, ops),
                    Tail(uids), ops)

\* The graph after the first n node rules, each applied to all of its matches
\* in the graph the rules before it left
RECURSIVE AfterNodeRules(_, _, _)
AfterNodeRules(f, g, n) ==
    IF n = 0 THEN g
    ELSE LET before == AfterNodeRules(f, g, n - 1)
         IN ApplyToAll(f, before,
                       Ascending(MatchingUids(NodeCondition(f, n), before.nodes)),
                       f.node_filters[n].operations)

NodeEvents == {"match_nodes", "node_ops"}
EdgeEvents == {"match_edges", "edge_ops"}

MatchEventsBefore(k, ev) == {j \in 1..(k - 1) : log[j].ev = ev}

\* Every match of the match event at j has had its operations applied by an
\* event between j and k
AllApplied(j, k, ev) ==
    \A u \in log[j].set :
        \E i \in (j + 1)..(k - 1) :
            log[i].ev = ev /\ log[i].rule = log[j].rule /\ log[i].one = u

\* C3 (the claim as stated): when apply fails on a pattern that does not
\* compile, style defaults, nodes and edges are what they were before the call.
C3_NoPartialApplication == (pc = "panicked") => graph = graph0

\* C4: the node rules are taken in declared order; the match set of rule N is
\* computed once, on the graph as rules 1..N-1 left it, after every operation
\* application of those rules and before any of rule N; operations are applied
\* only to the matches of the rule whose match set was computed last.
C4_RuleOrder ==
    \A k \in DOMAIN log :
        /\ log[k].ev = "match_nodes" =>
            /\ log[k].rule = Cardinality(MatchEventsBefore(k, "match_nodes")) + 1
            /\ \A j \in MatchEventsBefore(k, "match_nodes") : AllApplied(j, k, "node_ops")
            /\ log[k].nodes =
                AfterNodeRules(filters, WithStyleDefaults(graph0, filters), log[k].rule - 1).nodes
            /\ log[k].set = MatchingUids(NodeCondition(filters, log[k].rule), log[k].nodes)
        /\ log[k].ev = "node_ops" =>
            \E j \in MatchEventsBefore(k, "match_nodes") :
                /\ log[j].rule = log[k].rule
                /\ log[k].one \in log[j].set
                /\ \A i \in (j + 1)..(k - 1) : log[i].ev = "node_ops" /\ log[i].rule = log[k].rule

\* C4 witness: the match set of a second rule has been computed after a first
\* rule changed two nodes
C4_Witness ==
    \E k \in DOMAIN log :
        /\ log[k].ev = "match_nodes" /\ log[k].rule = 2
        /\ Cardinality({u \in DOMAIN graph0.nodes : log[k].nodes[u] # graph0.nodes[u]}) >= 2
        /\ log[k].set # {}

\* C5 (the claim as stated): a rule that runs after a rule has hidden node A
\* does not have A in its match set.
C5_HiddenNodesNotMatched ==
    \A k \in DOMAIN log :
        log[k].ev = "match_nodes" => \A u \in log[k].set : log[k].nodes[u].visible

\* C5 as amended: the match set of a rule is the one its condition has in the
\* graph before any rule ran; it holds a node hidden by an earlier rule
\* whenever it would hold it with the two rules in the other order.
C5_MatchSetIgnoresVisibility ==
    \A k \in DOMAIN log :
        log[k].ev = "match_nodes" =>
            log[k].set = MatchingUids(NodeCondition(filters, log[k].rule), graph0.nodes)

\* C5 witness: rule 2 has in its match set a node that rule 1 hid
C5_Witness ==
    \E k \in DOMAIN log :
        /\ log[k].ev = "match_nodes" /\ log[k].rule = 2
        /\ \E u \in log[k].set : ~log[k].nodes[u].visible /\ graph0.nodes[u].visible
        /\ \E j \in 1..(k - 1) : log[j].ev = "node_ops" /\ log[j].rule = 1

NodePhase == {"apply", "compile_nodes", "node_rule", "node_targets"}

\* C6: no edge changes and no edge rule is matched while a node rule is
\* pending: every edge event comes after the match and every operation
\* application of all node rules, no node event follows it, and every edge
\* condition is evaluated on the node map the last node rule left.
C6_NodeRulesFirst ==
    /\ (pc \in NodePhase /\ (pc = "node_rule" => ni <= Len(filters.node_filters))) =>
        /\ graph.edges = graph0.edges
        /\ \A k \in DOMAIN log : log[k].ev \in NodeEvents
    /\ \A k \in DOMAIN log :
        log[k].ev \in EdgeEvents =>
            /\ Cardinality(MatchEventsBefore(k, "match_nodes")) = Len(filters.node_filters)
            /\ \A j \in MatchEventsBefore(k, "match_nodes") : AllApplied(j, k, "node_ops")
            /\ \A j \in k..Len(log) : log[j].ev \in EdgeEvents
    /\ \A k \in DOMAIN log :
        log[k].ev = "match_edges" =>
            /\ log[k].nodes =
                AfterNodeRules(filters, WithStyleDefaults(graph0, filters),
                               Len(filters.node_filters)).nodes
            /\ log[k].set =
                MatchingEdges(EdgeCondition(filters, log[k].rule), graph0.edges, log[k].nodes)

\* C6 witness: an edge rule changed an edge after two node rules had changed nodes
C6_Witness ==
    /\ pc = "done"
    /\ Len(filters.node_filters) = 2
    /\ graph.nodes # graph0.nodes
    /\ \E k \in DOMAIN log : log[k].ev = "edge_ops" /\ graph.edges[log[k].one] # graph0.edges[log[k].one]

-----------------------------------------------------------------------------
(* The operations of one rule on one matched node or edge, operation by    *)
(* operation (AttrSpec): the inner `for op in ops` of apply_node_operations *)
(* and of apply_edge_operation. log keeps the graph before each operation. *)

MaxOps == 2

AttrOps ==
    {Operation("update-attr", <<<<S_color, S_red>>, <<S_shape>>>>),
     Operation("update-attr", <<<<S_color, S_red>>, <<S_shape, S_box>>, <<S_color, S_blue>>>>),
     Operation("update-attr", <<<<S_shape>>, <<>>>>),
     Operation("update-attr", <<<<S_label, S_box, S_red>>>>),
     Operation("update-attr", <<>>),
     Operation("remove-attr", <<<<S_label, S_shape>>>>),
     Operation("remove-attr", <<<<S_color>>, <<S_label>>>>),
     Operation("remove-attr", <<>>),
     Operation("hide", <<<<T_self>>>>),
     Operation("show", <<<<T_self>>>>),
     Operation("hide", <<<<T_siblings, T_descendant>>>>),
     Operation("show", <<<<T_parents, T_siblings, T_children>>>>),
     Operation("frobnicate", <<<<T_self>>>>)}

AttrInit ==
    /\ graph \in ApplyGraphs
    /\ graph0 = graph
    /\ \E ops \in SeqsUpTo(AttrOps, MaxOps) :
        \/ \E id \in DOMAIN graph.nodes : input = [kind |-> "node", id |-> id, ops |-> ops]
        \/ \E i \in DOMAIN graph.edges : input = [kind |-> "edge", id |-> i, ops |-> ops]
    /\ pc = "ops"
    /\ ni = 0
    /\ log = <<>>
    /\ output = <<>>
    /\ filters = <<>> /\ target_uids = <<>> /\ ei = 0 /\ target_edges = <<>>
    /\ call = <<>> /\ done = {} /\ undone_next = {} /\ undone_current = {}
    /\ fun_calls = <<>>

\* apply_node_operations, lines 75-126: one iteration of `for op in ops`
NodeOperationStep ==
    /\ pc = "ops" /\ input.kind = "node" /\ ni < Len(input.ops)
    /\ graph' = ApplyNodeOp(graph, input.id, input.ops[ni + 1])
    /\ ni' = ni + 1
    /\ log' = Append(log, graph)
    /\ UNCHANGED <<pc, graph0, filters, target_uids, ei, target_edges, travVars, ioVars>>

\* apply_edge_operation, lines 137-158: one iteration of `for op in ops`
EdgeOperationStep ==
    /\ pc = "ops" /\ input.kind = "edge" /\ ni < Len(input.ops)
    /\ graph' = [graph EXCEPT !.edges[input.id] = ApplyEdgeOp(@, input.ops[ni + 1])]
    /\ ni' = ni + 1
    /\ log' = Append(log, graph)
    /\ UNCHANGED <<pc, graph0, filters, target_uids, ei, target_edges, travVars, ioVars>>

\* The end of `for op in ops`
OperationsEnd ==
    /\ pc = "ops" /\ ni = Len(input.ops)
    /\ pc' = "ops_done"
    /\ UNCHANGED <<graph, graph0, applyVars, travVars, ioVars>>

AttrNext == NodeOperationStep \/ EdgeOperationStep \/ OperationsEnd

AttrSpec == AttrInit /\ [][AttrNext]_vars

\* The graph before and after the k-th operation
Before(k) == log[k]
After(k) == IF k < Len(log) THEN log[k + 1] ELSE graph

\* The styles of the matched node or edge in graph g
EntityStyles(g) ==
    IF input.kind = "node" THEN g.nodes[input.id].styles ELSE g.edges[input.id].styles

\* What update-attr is to make of a styles mapping
UpdatedStyles(styles, args) ==
    LET pairs == {i \in DOMAIN args : Len(args[i]) >= 2}
        keys == {args[i][1] : i \in pairs}
        last(key) == CHOOSE i \in pairs :
                        args[i][1] = key /\ \A j \in pairs : args[j][1] = key => j <= i
    IN [x \in (DOMAIN styles) \cup keys |-> IF x \in keys THEN args[last(x)][2] ELSE styles[x]]

\* C11: update-attr sets styles[group[0]] = group[1] for each group of at
\* least two elements, a later group winning on the same key, leaves the other
\* keys as they were and ignores the shorter groups; with no group of two or
\* more elements the graph is left as it was.
C11_UpdateAttr ==
    \A k \in 1..ni :
        input.ops[k].name = "update-attr" =>
            /\ EntityStyles(After(k)) = UpdatedStyles(EntityStyles(Before(k)), input.ops[k].args)
            /\ (\A i \in DOMAIN input.ops[k].args : Len(input.ops[k].args[i]) < 2)
                   => After(k) = Before(k)

\* C11 witness: an update-attr naming one key twice was applied, and the
\* value of the later group is the one stored
C11_Witness ==
    /\ ni = 1
    /\ input.ops[1] = Operation("update-attr",
                                <<<<S_color, S_red>>, <<S_shape, S_box>>, <<S_color, S_blue>>>>)
    /\ EntityStyles(graph)[S_color] = S_blue
    /\ EntityStyles(graph)[S_shape] = S_box
    /\ S_label \in DOMAIN EntityStyles(graph)

\* What remove-attr is to make of a styles mapping
RemovedStyles(styles, args) ==
    LET names == IF args = <<>> THEN {} ELSE Range(args[1])
    IN [x \in (DOMAIN styles) \ names |-> styles[x]]

\* C12: remove-attr removes exactly the keys named in the first argument
\* group; the later groups are not read, the other keys stay, and a key that
\* is not there is passed over.
C12_RemoveAttr ==
    \A k \in 1..ni :
        input.ops[k].name = "remove-attr" =>
            EntityStyles(After(k)) = RemovedStyles(EntityStyles(Before(k)), input.ops[k].args)

\* C12 witness: a remove-attr naming a key that is there and one that is not
\* removed the first and kept a third key
C12_Witness ==
    /\ ni = 2
    /\ input.ops[1] = Operation("update-attr", <<<<S_color, S_red>>, <<S_shape>>>>)
    /\ input.ops[2] = Operation("remove-attr", <<<<S_label, S_shape>>>>)
    /\ S_label \in DOMAIN EntityStyles(Before(2))
    /\ DOMAIN EntityStyles(graph) = {S_color}

\* The operation names and target tokens the two `match` statements name
NodeOpNames == {"update-attr", "remove-attr", "hide", "show"}
EdgeOpNames == {"update-attr", "remove-attr"}
TargetTokens == {T_self, T_ascendant, T_descendant, T_parents, T_children}

Recognized(k) ==
    input.ops[k].name \in (IF input.kind = "node" THEN NodeOpNames ELSE EdgeOpNames)

\* C13: an operation whose name is not recognized (hide and show included,
\* on an edge) leaves the graph as it was; a target token that is not
\* recognized adds no node to those a hide or show reaches, and the tokens
\* after it are still acted upon; the operations after an unrecognized one
\* are still applied, and the loop runs to its end.
C13_UnknownIgnored ==
    /\ pc # "panicked"
    /\ pc = "ops_done" => ni = Len(input.ops)
    /\ \A k \in 1..ni :
        /\ ~Recognized(k) => After(k) = Before(k)
        /\ (input.kind = "node" /\ input.ops[k].name \in {"hide", "show"}) =>
               \A n \in DOMAIN Before(k).nodes :
                   After(k).nodes[n].visible =
                       IF n \in FirstGroupNodes(Before(k), input.id, input.ops[k].args)
                       THEN input.ops[k].name = "show"
                       ELSE Before(k).nodes[n].visible
        /\ (k > 1 /\ ~Recognized(k - 1) /\ input.ops[k].name = "update-attr") =>
               EntityStyles(After(k)) = UpdatedStyles(EntityStyles(Before(k)), input.ops[k].args)
        /\ (k > 1 /\ ~Recognized(k - 1) /\ input.ops[k].name = "remove-attr") =>
               EntityStyles(After(k)) = RemovedStyles(EntityStyles(Before(k)), input.ops[k].args)

\* C13 witness: after an operation of unknown name, a hide whose first token
\* is unknown has hidden a descendant of the matched node
C13_Witness ==
    /\ pc = "ops_done"
    /\ input.kind = "node"
    /\ input.ops = <<Operation("frobnicate", <<<<T_self>>>>),
                     Operation("hide", <<<<T_siblings, T_descendant>>>>)>>
    /\ Before(2) = graph0
    /\ \E n \in DOMAIN graph.nodes : graph0.nodes[n].visible /\ ~graph.nodes[n].visible

\* g with the visibility flags of h
WithVisibilityOf(g, h) ==
    [g EXCEPT !.nodes = [n \in DOMAIN g.nodes |-> [g.nodes[n] EXCEPT !.visible = h.nodes[n].visible]]]

\* C14: hide and show change visibility flags and nothing else; update-attr
\* and remove-attr change the styles of the matched node or edge and nothing
\* else: no visibility flag, no other node's or edge's styles, none of the
\* three style-default mappings.
C14_OwnFieldOnly ==
    \A k \in 1..ni :
        /\ DOMAIN After(k).nodes = DOMAIN Before(k).nodes
        /\ (input.kind = "node" /\ input.ops[k].name \in {"hide", "show"}) =>
               WithVisibilityOf(After(k), Before(k)) = Before(k)
        /\ (input.kind = "node" /\ input.ops[k].name \in {"update-attr", "remove-attr"}) =>
               [After(k) EXCEPT !.nodes[input.id].styles = Before(k).nodes[input.id].styles]
                   = Before(k)
        /\ input.kind = "edge" =>
               [After(k) EXCEPT !.edges[input.id].styles = Before(k).edges[input.id].styles]
                   = Before(k)

\* C14 witness: show then hide self on a node that has styles and whose
\* graph has other nodes with styles; the node ends hidden with its styles
C14_Witness ==
    /\ pc = "ops_done"
    /\ input.kind = "node"
    /\ input.ops = <<Operation("show", <<<<T_self>>>>), Operation("hide", <<<<T_self>>>>)>>
    /\ ~graph.nodes[input.id].visible
    /\ graph.nodes[input.id].styles # EmptyMap
    /\ graph.nodes[input.id].styles = graph0.nodes[input.id].styles

-----------------------------------------------------------------------------
(* Output. The text written is kept line by line: a line is its kind, the  *)
(* identifiers it names and its attribute list; the attribute list of a    *)
(* HashMap has no fixed order and is kept as the set of its escaped        *)
(* key=value pairs.                                                        *)

\* mutant: only the first quote is escaped (replacen(.., 1))
style_escape_FirstOnly(raw) ==
    LET RECURSIVE Go(_, _)
        Go(r, found) ==
            IF r = <<>> THEN <<>>
            ELSE IF Head(r) = "\"" /\ ~found THEN <<"\\", "\"">> \o Go(Tail(r), TRUE)
            ELSE <<Head(r)>> \o Go(Tail(r), found)
    IN Go(raw, FALSE)

\* style_escape: raw.replace("\"", "\\\"")
RECURSIVE style_escape(_)
style_escape(raw) ==
    IF raw = <<>> THEN <<>>
    ELSE IF Head(raw) = "\"" THEN <<"\\", "\"">> \o style_escape(Tail(raw))
    ELSE <<Head(raw)>> \o style_escape(Tail(raw))

\* `for (key, value) in &self.styles { .. style_escape(key), style_escape(value) .. }`
Attrs(styles) == {<<style_escape(k), style_escape(styles[k])>> : k \in DOMAIN styles}

Line(kind, ids, attrs) == [line |-> kind, ids |-> ids, attrs |-> attrs]

\* Node::print
Node_print(n) == Line("node", <<n.id>>, Attrs(n.styles))

\* Edge::print
Edge_print(e) == Line("edge", <<e.parent, e.child>>, Attrs(e.styles))

\* One of the three settings blocks of print_beginning
SettingsBlock(kind, styles) ==
    IF Cardinality(DOMAIN styles) > 0 THEN <<Line(kind, <<>>, Attrs(styles))>> ELSE <<>>

\* Graph::print_beginning
print_beginning(g) ==
    <<Line("digraph", <<>>, {})>>
        \o SettingsBlock("graph [", g.graph_styles)
        \o SettingsBlock("node [", g.node_styles)
        \o SettingsBlock("edge [", g.edge_styles)

\* Graph::print_ending
print_ending(g) == <<Line("}", <<>>, {})>>

\* Option::unwrap_or
unwrap_or(o, default) == IF IsSome(o) THEN Unwrap(o) ELSE default

\* `self.nodes.get(&id).map(|n| n.is_visible())`
IsVisibleOpt(g, id) == IF id \in DOMAIN g.nodes THEN Some(g.nodes[id].visible) ELSE None

\* mutant: an edge is printed only when both its endpoints are registered
EdgeIsPrinted_BothRegistered(g, e, print_unregistered_nodes) ==
    LET parent_is_visible == IsVisibleOpt(g, e.parent)
        child_is_visible == IsVisibleOpt(g, e.child)
    IN /\ IsSome(parent_is_visible) /\ IsSome(child_is_visible)
       /\ unwrap_or(parent_is_visible, print_unregistered_nodes)
       /\ unwrap_or(child_is_visible, print_unregistered_nodes)

\* mutant: the child's visibility is not looked at
EdgeIsPrinted_ParentOnly(g, e, print_unregistered_nodes) ==
    LET parent_is_visible == IsVisibleOpt(g, e.parent)
        child_is_visible == IsVisibleOpt(g, e.child)
    IN /\ (IsSome(parent_is_visible) \/ IsSome(child_is_visible))
       /\ unwrap_or(parent_is_visible, print_unregistered_nodes)

\* Graph::output_visible_nodes, lines 197-202: the condition of `e.print(out)?`
EdgeIsPrinted(g, e, print_unregistered_nodes) ==
    LET parent_is_visible == IsVisibleOpt(g, e.parent)
        child_is_visible == IsVisibleOpt(g, e.child)
    IN /\ (IsSome(parent_is_visible) \/ IsSome(child_is_visible))
       /\ unwrap_or(parent_is_visible, print_unregistered_nodes)
       /\ unwrap_or(child_is_visible, print_unregistered_nodes)

\* `for (_, n) in self.nodes.iter().filter(|&(_, n)| n.is_visible()) { n.print(out)?; }`
RECURSIVE PrintVisibleNodes(_, _)
PrintVisibleNodes(nodes, ids) ==
    IF ids = <<>> THEN <<>>
    ELSE (IF nodes[Head(ids)].visible THEN <<Node_print(nodes[Head(ids)])>> ELSE <<>>)
             \o PrintVisibleNodes(nodes, Tail(ids))

\* `for e in &self.edges { .. }` of output_visible_nodes
RECURSIVE PrintVisibleEdges(_, _, _)
PrintVisibleEdges(g, edges, print_unregistered_nodes) ==
    IF edges = <<>> THEN <<>>
    ELSE (IF EdgeIsPrinted(g, Head(edges), print_unregistered_nodes)
          THEN <<Edge_print(Head(edges))>> ELSE <<>>)
             \o PrintVisibleEdges(g, Tail(edges), print_unregistered_nodes)

\* Graph::output_visible_nodes
output_visible_nodes(g, print_unregistered_nodes) ==
    print_beginning(g)
        \o PrintVisibleNodes(g.nodes, Ascending(DOMAIN g.nodes))
        \o PrintVisibleEdges(g, g.edges, print_unregistered_nodes)
        \o print_ending(g)

-----------------------------------------------------------------------------
(* output_visible_nodes on its own (OutSpec): object nodes 1 and 2, each   *)
(* registered or not, visible or hidden; up to MaxOutEdges connections     *)
(* among 1, 2 and two identifiers that no node has.                        *)

MaxOutEdges == 2

OutNodes ==
    {ObjectNode(1, S_Cube, S_Model, S_Mesh), ObjectNode(2, S_Red, S_Material, S_Empty)}

OutNodeSets ==
    {{[n EXCEPT !.visible = vis[n.id]] : n \in reg} :
        reg \in SUBSET OutNodes, vis \in [{1, 2} -> BOOLEAN]}

OutEdgeLists ==
    SeqsUpTo({ConnectionEdge(S_OO, c, p, None) : p \in {1, 2, 99}, c \in {1, 2, 98}},
             MaxOutEdges)

OutGraphs ==
    {[Graph_new EXCEPT !.nodes = [i \in {n.id : n \in ns} |-> CHOOSE n \in ns : n.id = i],
                       !.edges = es] :
        ns \in OutNodeSets, es \in OutEdgeLists}

OutInit ==
    /\ graph \in OutGraphs
    /\ graph0 = graph
    /\ input \in BOOLEAN
    /\ output = <<>>
    /\ pc = "output"
    /\ filters = <<>> /\ ni = 0 /\ target_uids = <<>> /\ ei = 0 /\ target_edges = <<>>
    /\ log = <<>> /\ call = <<>> /\ done = {} /\ undone_next = {} /\ undone_current = {}
    /\ fun_calls = <<>>

\* Graph::output_visible_nodes(out, print_unregistered_nodes)
OutputVisibleNodes ==
    /\ pc = "output"
    /\ output' = output_visible_nodes(graph, input)
    /\ pc' = "printed"
    /\ UNCHANGED <<graph, graph0, input, applyVars, travVars>>

OutNext == OutputVisibleNodes

OutSpec == OutInit /\ [][OutNext]_vars

\* The lines of one kind, in the order written
LinesOf(out, kind) == SelectSeq(out, LAMBDA l : l.line = kind)

\* The members of seq at the positions in idx, in order
SubSeqAt(seq, idx) == [k \in 1..Cardinality(idx) |-> seq[Ascending(idx)[k]]]

\* An endpoint counts as visible: its node's flag, or the default when no
\* node has the identifier
CountsAsVisible(g, id, default) ==
    IF id \in DOMAIN g.nodes THEN g.nodes[id].visible ELSE default

NodeLinesAreTheVisibleNodes ==
    LET ids == Ascending({n \in DOMAIN graph.nodes : graph.nodes[n].visible})
    IN [k \in DOMAIN LinesOf(output, "node") |-> LinesOf(output, "node")[k].ids]
           = [k \in DOMAIN ids |-> <<ids[k]>>]

EdgeLinesAre(idx) ==
    [k \in DOMAIN LinesOf(output, "edge") |-> LinesOf(output, "edge")[k].ids]
        = SubSeqAt([i \in DOMAIN graph.edges |-> <<graph.edges[i].parent, graph.edges[i].child>>], idx)

\* C15 as claimed: a node line exactly for each visible node, an edge line
\* exactly for each edge both of whose endpoints count as visible.
C15_BothEndpointsVisible ==
    pc = "printed" =>
        /\ NodeLinesAreTheVisibleNodes
        /\ EdgeLinesAre({i \in DOMAIN graph.edges :
               /\ CountsAsVisible(graph, graph.edges[i].parent, input)
               /\ CountsAsVisible(graph, graph.edges[i].child, input)})

\* C15 as amended: a node line exactly for each visible node, an edge line
\* exactly for each edge that has at least one endpoint with a node and both
\* of whose endpoints count as visible; an edge neither of whose endpoints
\* has a node is never written.
C15_VisibleEdgesWithARegisteredEnd ==
    pc = "printed" =>
        /\ NodeLinesAreTheVisibleNodes
        /\ EdgeLinesAre({i \in DOMAIN graph.edges :
               /\ {graph.edges[i].parent, graph.edges[i].child} \cap DOMAIN graph.nodes # {}
               /\ CountsAsVisible(graph, graph.edges[i].parent, input)
               /\ CountsAsVisible(graph, graph.edges[i].child, input)})

\* C15 witness: with the default true, an edge from a visible node to an
\* identifier without a node was written, an edge to a hidden node was not,
\* and a hidden node has no line
C15_Witness ==
    /\ pc = "printed"
    /\ input = TRUE
    /\ DOMAIN graph.nodes = {1, 2}
    /\ graph.nodes[1].visible /\ ~graph.nodes[2].visible
    /\ Len(graph.edges) = 2
    /\ graph.edges[1].parent = 1 /\ graph.edges[1].child = 98
    /\ graph.edges[2].parent = 1 /\ graph.edges[2].child = 2
    /\ Len(LinesOf(output, "edge")) = 1
    /\ LinesOf(output, "edge")[1].ids = <<1, 98>>
    /\ Len(LinesOf(output, "node")) = 1

-----------------------------------------------------------------------------
(* main with a filter document (MainSpec): Filters::apply, step by step as *)
(* in Spec, then output_visible_nodes; show_implicit_nodes absent or true. *)

\* mutant: an absent show_implicit_nodes counts as true
ShowImplicitNodes_DefaultTrue(f) == unwrap_or(f.show_implicit_nodes, TRUE)

\* main, line 59: filters.show_implicit_nodes.unwrap_or(false)
ShowImplicitNodes(f) == unwrap_or(f.show_implicit_nodes, FALSE)

\* Two objects and one connection, without the implicit root
TwoObjectsGraph ==
    AddEdges(add_node(add_node(Graph_new, ObjectNode(1, S_Cube, S_Model, S_Mesh)),
                      ObjectNode(2, S_Red, S_Material, S_Empty)),
             <<ConnectionEdge(S_OO, 2, 1, None)>>)

MainFilters ==
    {[f EXCEPT !.show_implicit_nodes = o] : f \in ApplyFilters, o \in {None, Some(TRUE)}}

MainInit ==
    /\ graph \in ApplyGraphs \cup {TwoObjectsGraph}
    /\ graph0 = graph
    /\ filters \in MainFilters
    /\ pc = "apply"
    /\ ni = 0 /\ target_uids = <<>> /\ ei = 0 /\ target_edges = <<>>
    /\ log = <<>>
    /\ call = <<>> /\ done = {} /\ undone_next = {} /\ undone_current = {}
    /\ fun_calls = <<>> /\ input = <<>> /\ output = <<>>

\* main, line 59: graph.output_visible_nodes(&mut out, ..)
MainOutput ==
    /\ pc = "done"
    /\ output' = output_visible_nodes(graph, ShowImplicitNodes(filters))
    /\ pc' = "printed"
    /\ UNCHANGED <<graph, graph0, input, applyVars, travVars>>

MainNext == Next \/ MainOutput

MainSpec == MainInit /\ [][MainNext]_vars

\* C16: when show_implicit_nodes is absent, the edges written are those both
\* of whose endpoints have a node and are visible: every edge that names an
\* identifier without a node is left out.
C16_ImplicitHiddenByDefault ==
    (pc = "printed" /\ filters.show_implicit_nodes = None) =>
        EdgeLinesAre({i \in DOMAIN graph.edges :
            /\ graph.edges[i].parent \in DOMAIN graph.nodes
            /\ graph.edges[i].child \in DOMAIN graph.nodes
            /\ graph.nodes[graph.edges[i].parent].visible
            /\ graph.nodes[graph.edges[i].child].visible})

\* C16 witness: show_implicit_nodes absent, an edge between the visible node
\* 1 and the identifier 99 that no node has, and no line for it (while other
\* edges were written)
C16_Witness ==
    /\ pc = "printed"
    /\ filters.show_implicit_nodes = None
    /\ 99 \notin DOMAIN graph.nodes
    /\ graph.nodes[1].visible
    /\ \E i \in DOMAIN graph.edges : graph.edges[i].parent = 1 /\ graph.edges[i].child = 99
    /\ \A k \in DOMAIN LinesOf(output, "edge") : 99 \notin Range(LinesOf(output, "edge")[k].ids)
    /\ LinesOf(output, "edge") # <<>>

\* The operations a rule's names stand for
RuleOps(f, i) ==
    Flatten([k \in DOMAIN f.node_filters[i].operations |->
                IF f.node_filters[i].operations[k] \in DOMAIN f.node_operations
                THEN f.node_operations[f.node_filters[i].operations[k]]
                ELSE <<>>])

\* No node rule of f shows anything
NoRuleShows(f) ==
    \A i \in DOMAIN f.node_filters : \A k \in DOMAIN RuleOps(f, i) : RuleOps(f, i)[k].name # "show"

\* The nodes rule i of f hides in g: its matches when it has a hide of self,
\* what its hide of descendant reaches from its matches
HiddenBy(f, g, i) ==
    LET matches == MatchingUids(NodeCondition(f, i), g.nodes)
        has(op) == \E k \in DOMAIN RuleOps(f, i) : RuleOps(f, i)[k] = op
    IN (IF has(Operation("hide", <<<<T_self>>>>)) THEN matches ELSE {})
           \cup (IF has(Operation("hide", <<<<T_descendant>>>>))
                 THEN Reached(g, "down", matches) \cap DOMAIN g.nodes ELSE {})

\* C17: after apply with node rules that hide (and none that shows) and
\* output_visible_nodes, no node a rule hid has a node line or is the parent
\* or child of an edge line, and every other node has its node line.
C17_HiddenNodeNotInOutput ==
    (pc = "printed" /\ NoRuleShows(filters)) =>
        LET hidden == UNION {HiddenBy(filters, graph0, i) : i \in DOMAIN filters.node_filters}
            shown == Ascending(DOMAIN graph0.nodes \ hidden)
        IN /\ [k \in DOMAIN LinesOf(output, "node") |-> LinesOf(output, "node")[k].ids]
                  = [k \in DOMAIN shown |-> <<shown[k]>>]
           /\ \A k \in DOMAIN LinesOf(output, "edge") :
                  Range(LinesOf(output, "edge")[k].ids) \cap hidden = {}

\* C17 witness: nodes 1 (Model) and 2 (Material), edge 1 -> 2, one rule
\* class ^Model$ with hide self: the output has the line of node 2 and no
\* other node or edge line
C17_Witness ==
    /\ pc = "printed"
    /\ graph0 = TwoObjectsGraph
    /\ Len(filters.node_filters) = 1
    /\ filters.node_filters[1].condition.class = Some(Anchored(S_Model))
    /\ filters.node_filters[1].operations = <<"hide_self">>
    /\ Len(LinesOf(output, "node")) = 1
    /\ LinesOf(output, "node")[1].ids = <<2>>
    /\ LinesOf(output, "edge") = <<>>

-----------------------------------------------------------------------------
(* style_escape on its own (EscSpec): every string of at most MaxStrLen    *)
(* characters over a letter, the double quote and the backslash.           *)

MaxStrLen == 4

EscChars == {"a", "\"", "\\"}

EscInit ==
    /\ input \in SeqsUpTo(EscChars, MaxStrLen)
    /\ output = <<>>
    /\ pc = "escape"
    /\ graph = Graph_new /\ graph0 = Graph_new
    /\ filters = <<>> /\ ni = 0 /\ target_uids = <<>> /\ ei = 0 /\ target_edges = <<>>
    /\ log = <<>> /\ call = <<>> /\ done = {} /\ undone_next = {} /\ undone_current = {}
    /\ fun_calls = <<>>

\* style_escape(raw)
StyleEscape ==
    /\ pc = "escape"
    /\ output' = style_escape(input)
    /\ pc' = "escaped"
    /\ UNCHANGED <<graph, graph0, input, applyVars, travVars>>

EscNext == StyleEscape

EscSpec == EscInit /\ [][EscNext]_vars

\* out is raw with every double quote replaced by the two characters of
\* `with` and every other character kept, in order
QuotesReplaced(raw, out, with) ==
    /\ Len(out) = Len(raw) + CountChar(raw, "\"")
    /\ \A i \in DOMAIN raw :
        LET p == i + Cardinality({j \in 1..(i - 1) : raw[j] = "\""})
        IN IF raw[i] = "\""
           THEN out[p] = with[1] /\ out[p + 1] = with[2]
           ELSE out[p] = raw[i]

\* C18 as claimed: every double quote is doubled and no other character is
\* altered.
C18_QuotesDoubled ==
    pc = "escaped" => QuotesReplaced(input, output, <<"\"", "\"">>)

\* C18 as amended: every double quote gets a backslash put before it and no
\* other character, a backslash included, is altered.
C18_QuotesBackslashed ==
    pc = "escaped" => QuotesReplaced(input, output, <<"\\", "\"">>)

\* C18 witness: a string with two quotes and a backslash was escaped
C18_Witness ==
    /\ pc = "escaped"
    /\ input = <<"\"", "\\", "a", "\"">>
    /\ output = <<"\\", "\"", "\\", "a", "\\", "\"">>

-----------------------------------------------------------------------------
(* Filters::apply as a function of the graph                               *)

RECURSIVE ApplyToEdges(_, _, _, _)
ApplyToEdges(f, g, idx, ops) ==
    IF idx = <<>> THEN g
    ELSE ApplyToEdges(f, [g EXCEPT !.edges[Head(idx)] =
                                 apply_edge_operation(f.edge_operations, @, ops)],
                      Tail(idx), ops)

\* The graph after the first n edge rules
RECURSIVE AfterEdgeRules(_, _, _)
AfterEdgeRules(f, g, n) ==
    IF n = 0 THEN g
    ELSE LET before == AfterEdgeRules(f, g, n - 1)
         IN ApplyToEdges(f, before,
                         Ascending(MatchingEdges(EdgeCondition(f, n), before.edges, before.nodes)),
                         f.edge_filters[n].operations)

\* Filters::apply: [ok, val], ok false when an `.unwrap()` panicked, val the
\* graph as the call left it
Filters_apply(f, g) ==
    LET styled == WithStyleDefaults(g, f)
    IN IF ~NodeFiltersCompile(f) THEN [ok |-> FALSE, val |-> styled]
       ELSE LET noded == AfterNodeRules(f, styled, Len(f.node_filters))
            IN IF ~EdgeFiltersCompile(f) THEN [ok |-> FALSE, val |-> noded]
               ELSE [ok |-> TRUE, val |-> AfterEdgeRules(f, noded, Len(f.edge_filters))]

\* Under Spec: the steps of Filters::apply end where Filters_apply says
ApplyAgreesWithSteps ==
    /\ pc = "done" => Filters_apply(filters, graph0) = Ok(graph)
    /\ pc = "panicked" => Filters_apply(filters, graph0) = [ok |-> FALSE, val |-> graph]

-----------------------------------------------------------------------------
(* The graph under its callers (ApiSpec): up to MaxCalls calls of          *)
(* add_node, add_edge, Filters::apply and the four traversals, each a      *)
(* whole call; graph0 is the graph before the last call, input its         *)
(* argument and output what it returned.                                   *)

MaxCalls == 3

ApiNodes ==
    {Node_new(0), ObjectNode(1, S_Cube, S_Model, S_Mesh),
     ObjectNode(1, S_Red, S_Material, S_Empty), ObjectNode(2, S_Red, S_Material, S_Empty)}

ApiEdges ==
    {ConnectionEdge(S_OO, 2, 1, None), ConnectionEdge(S_OP, 1, 0, Some(S_Prop)),
     ConnectionEdge(S_OO, 99, 1, None)}

ApiFilters ==
    {f \in ApplyFilters :
        /\ f.node_styles # EmptyMap
        /\ Len(f.node_filters) = 1
        /\ Len(f.edge_filters) = 1
        /\ f.edge_filters[1].operations = <<"paint">>}

ApiCalls ==
    [name : {"map_ascendant", "map_descendant", "map_parents", "map_children"},
     targets : {{1}, {0, 2}},
     fun : {"hide", "show"}]

ApiInit ==
    /\ graph \in {Graph_new} \cup ApplyGraphs
    /\ graph0 = graph
    /\ pc = "ready"
    /\ ni = 0
    /\ input = <<>> /\ output = <<>>
    /\ filters = <<>> /\ call = <<>>
    /\ target_uids = <<>> /\ ei = 0 /\ target_edges = <<>> /\ log = <<>>
    /\ done = {} /\ undone_next = {} /\ undone_current = {} /\ fun_calls = <<>>

\* Graph::add_node
AddNode ==
    /\ pc # "panicked" /\ ni < MaxCalls
    /\ \E node \in ApiNodes :
        /\ graph' = add_node(graph, node)
        /\ output' = PreviousNode(graph, node)
        /\ input' = node
    /\ graph0' = graph
    /\ pc' = "add_node"
    /\ ni' = ni + 1
    /\ UNCHANGED <<filters, target_uids, ei, target_edges, log, travVars>>

\* Graph::add_edge
AddEdge ==
    /\ pc # "panicked" /\ ni < MaxCalls
    /\ \E edge \in ApiEdges :
        /\ graph' = add_edge(graph, edge)
        /\ input' = edge
    /\ output' = <<>>
    /\ graph0' = graph
    /\ pc' = "add_edge"
    /\ ni' = ni + 1
    /\ UNCHANGED <<filters, target_uids, ei, target_edges, log, travVars>>

\* Filters::apply
FiltersApply ==
    /\ pc # "panicked" /\ ni < MaxCalls
    /\ \E f \in ApiFilters :
        /\ filters' = f
        /\ graph' = Filters_apply(f, graph).val
        /\ pc' = IF Filters_apply(f, graph).ok THEN "Filters::apply" ELSE "panicked"
    /\ graph0' = graph
    /\ ni' = ni + 1
    /\ UNCHANGED <<target_uids, ei, target_edges, log, travVars, ioVars>>

\* Graph::map_ascendant, map_descendant, map_parents, map_children
MapCall ==
    /\ pc # "panicked" /\ ni < MaxCalls
    /\ \E c \in ApiCalls :
        /\ call' = c
        /\ graph' = CASE c.name = "map_ascendant" -> map_ascendant(graph, c.targets, c.fun)
                      [] c.name = "map_descendant" -> map_descendant(graph, c.targets, c.fun)
                      [] c.name = "map_parents" -> map_parents(graph, c.targets, c.fun)
                      [] c.name = "map_children" -> map_children(graph, c.targets, c.fun)
        /\ pc' = c.name
    /\ graph0' = graph
    /\ ni' = ni + 1
    /\ UNCHANGED <<filters, target_uids, ei, target_edges, log, done, undone_next,
                   undone_current, fun_calls, ioVars>>

ApiNext == AddNode \/ AddEdge \/ FiltersApply \/ MapCall

ApiSpec == ApiInit /\ [][ApiNext]_vars

\* C19: add_node stores the node given, whole, under its own identifier,
\* whatever was stored there, leaves the other nodes alone and returns the
\* node it displaced, or None; and whatever the calls made, every key of the
\* nodes mapping is the identifier of the node stored under it.
C19_AddNodeReplaces ==
    /\ \A k \in DOMAIN graph.nodes : graph.nodes[k].id = k
    /\ pc = "add_node" =>
        /\ DOMAIN graph.nodes = DOMAIN graph0.nodes \cup {input.id}
        /\ graph.nodes[input.id] = input
        /\ \A k \in DOMAIN graph0.nodes \ {input.id} : graph.nodes[k] = graph0.nodes[k]
        /\ output = IF input.id \in DOMAIN graph0.nodes
                    THEN Some(graph0.nodes[input.id]) ELSE None
        /\ [graph EXCEPT !.nodes = graph0.nodes] = graph0

\* C19 witness: a node was added under an identifier whose node had another
\* payload and had been hidden; the displaced node came back and the new one
\* is stored visible
C19_Witness ==
    /\ pc = "add_node"
    /\ IsSome(output)
    /\ ~Unwrap(output).visible
    /\ Unwrap(output).data # input.data
    /\ graph.nodes[input.id].visible
    /\ graph.nodes[input.id].data = input.data

\* g without what the operations may change: every node visible, no styles
\* on nodes and edges, no style defaults
Skeleton(g) ==
    [graph_styles |-> EmptyMap, node_styles |-> EmptyMap, edge_styles |-> EmptyMap,
     nodes |-> [n \in DOMAIN g.nodes |->
                   [g.nodes[n] EXCEPT !.visible = TRUE, !.styles = EmptyMap]],
     edges |-> [i \in DOMAIN g.edges |-> [g.edges[i] EXCEPT !.styles = EmptyMap]]]

\* C20: Filters::apply (completed or not) and the four traversals leave the
\* set of node identifiers, every node's identifier and payload, the number
\* and order of the edges and every edge's parent, child, connection type and
\* property name as they were: visibility flags and style mappings apart, the
\* graph after the call is the graph before it.
C20_StructurePreserved ==
    pc \in {"Filters::apply", "panicked", "map_ascendant", "map_descendant",
            "map_parents", "map_children"}
        => Skeleton(graph) = Skeleton(graph0)

\* C20 witness: a traversal hid a node, in a graph with an edge to an
\* identifier that has no node, and the node is still there
C20_Witness ==
    /\ pc = "map_descendant"
    /\ call.fun = "hide"
    /\ \E i \in DOMAIN graph.edges : graph.edges[i].child \notin DOMAIN graph.nodes
    /\ \E n \in DOMAIN graph.nodes : graph0.nodes[n].visible /\ ~graph.nodes[n].visible

-----------------------------------------------------------------------------
(* Filters::apply called twice with the same Filters (TwiceSpec): the      *)
(* graphs of Spec, all nodes visible or all hidden; input is the graph     *)
(* before the first call, graph0 the graph before the last one.            *)

TwiceInit ==
    /\ \E g \in ApplyGraphs, v \in BOOLEAN :
        graph = [g EXCEPT !.nodes = [i \in DOMAIN g.nodes |-> [g.nodes[i] EXCEPT !.visible = v]]]
    /\ graph0 = graph
    /\ input = graph
    /\ filters \in ApplyFilters
    /\ pc = "apply"
    /\ ni = 0 /\ target_uids = <<>> /\ ei = 0 /\ target_edges = <<>>
    /\ log = <<>>
    /\ call = <<>> /\ done = {} /\ undone_next = {} /\ undone_current = {}
    /\ fun_calls = <<>> /\ output = <<>>

\* filters.apply(&mut graph), the first time
FirstApply ==
    /\ pc = "apply"
    /\ graph' = Filters_apply(filters, graph).val
    /\ graph0' = graph
    /\ pc' = IF Filters_apply(filters, graph).ok THEN "applied" ELSE "panicked"
    /\ UNCHANGED <<applyVars, travVars, ioVars>>

\* filters.apply(&mut graph), again
SecondApply ==
    /\ pc = "applied"
    /\ graph' = Filters_apply(filters, graph).val
    /\ graph0' = graph
    /\ pc' = IF Filters_apply(filters, graph).ok THEN "applied_twice" ELSE "panicked"
    /\ UNCHANGED <<applyVars, travVars, ioVars>>

TwiceNext == FirstApply \/ SecondApply

TwiceSpec == TwiceInit /\ [][TwiceNext]_vars

\* C21: with patterns that all compile, the second of two successive
\* applications of the same Filters leaves the graph (style defaults, every
\* node's visibility and styles, every edge's styles) as the first left it;
\* a panic on a pattern can only be that of the first application.
C21_ApplyIdempotent ==
    /\ pc = "applied_twice" => graph = graph0
    /\ pc = "panicked" => graph0 = input

\* C21 witness: two applications of a Filters with two node rules and an edge
\* rule, of which the first changed a visibility flag, a node's styles, an
\* edge's styles and the style defaults
C21_Witness ==
    /\ pc = "applied_twice"
    /\ Len(filters.node_filters) = 2 /\ Len(filters.edge_filters) = 1
    /\ graph.node_styles # input.node_styles
    /\ \E n \in DOMAIN graph.nodes : graph.nodes[n].visible # input.nodes[n].visible
    /\ \E n \in DOMAIN graph.nodes : graph.nodes[n].styles # input.nodes[n].styles
    /\ \E i \in DOMAIN graph.edges : graph.edges[i].styles # input.edges[i].styles

-----------------------------------------------------------------------------
(* One node rule whose operations write visibility more than once          *)
(* (RuleSpec): the steps of Spec, on Filters with a single node rule       *)
(* naming several operation groups, on graphs all visible or all hidden.   *)

RuleNodeOperations ==
    [hide_self |-> <<Operation("hide", <<<<T_self>>>>)>>,
     show_self |-> <<Operation("show", <<<<T_self>>>>)>>,
     hide_parents |-> <<Operation("hide", <<<<T_parents>>>>)>>,
     show_children |-> <<Operation("show", <<<<T_children>>>>)>>,
     hide_desc |-> <<Operation("hide", <<<<T_descendant>>>>)>>,
     show_asc |-> <<Operation("show", <<<<T_ascendant>>>>)>>,
     flip |-> <<Operation("hide", <<<<T_self>>>>), Operation("show", <<<<T_parents>>>>)>>]

RuleOperationLists ==
    {<<"show_self", "hide_parents">>,
     <<"hide_parents", "show_self">>,
     <<"hide_self", "show_children">>,
     <<"hide_self", "show_self", "hide_self">>,
     <<"missing", "flip", "hide_desc">>,
     <<"show_asc", "hide_self">>}

RuleConditions ==
    {NoCondition,
     [NoCondition EXCEPT !.name = Some(<<"e">>)],
     [NoCondition EXCEPT !.class = Some(Anchored(S_Model))]}

RuleFilters ==
    {[graph_styles |-> EmptyMap, node_styles |-> EmptyMap, edge_styles |-> EmptyMap,
      node_operations |-> RuleNodeOperations, edge_operations |-> EdgeOperations,
      node_filters |-> <<[condition |-> c, operations |-> ops]>>,
      edge_filters |-> ef, show_implicit_nodes |-> None] :
        c \in RuleConditions, ops \in RuleOperationLists,
        ef \in SeqsUpTo(EdgeRuleMenu, MaxEdgeRules)}

RuleInit ==
    /\ \E g \in ApplyGraphs, v \in BOOLEAN :
        graph = [g EXCEPT !.nodes = [i \in DOMAIN g.nodes |-> [g.nodes[i] EXCEPT !.visible = v]]]
    /\ graph0 = graph
    /\ filters \in RuleFilters
    /\ pc = "apply"
    /\ ni = 0 /\ target_uids = <<>> /\ ei = 0 /\ target_edges = <<>>
    /\ log = <<>>
    /\ call = <<>> /\ done = {} /\ undone_next = {} /\ undone_current = {}
    /\ fun_calls = <<>> /\ input = <<>> /\ output = <<>>

RuleSpec == RuleInit /\ [][Next]_vars

\* The operation group the k-th name of the rule stands for, or none
GroupOf(f, k) ==
    IF f.node_filters[1].operations[k] \in DOMAIN f.node_operations
    THEN f.node_operations[f.node_filters[1].operations[k]]
    ELSE <<>>

\* <<u, k, j>>: operation j of the group named k-th, issued for the match u
LexLeq(a, b) ==
    \/ a[1] < b[1]
    \/ a[1] = b[1] /\ a[2] < b[2]
    \/ a[1] = b[1] /\ a[2] = b[2] /\ a[3] <= b[3]

\* The hides and shows of the rule that reach node n in g
VisibilityWrites(f, g, matches, n) ==
    {w \in UNION {{<<u, k, j>> : j \in DOMAIN GroupOf(f, k)} :
                      u \in matches, k \in DOMAIN f.node_filters[1].operations} :
        /\ GroupOf(f, w[2])[w[3]].name \in {"hide", "show"}
        /\ n \in FirstGroupNodes(g, w[1], GroupOf(f, w[2])[w[3]].args)}

\* C22: the rule's matches are processed in ascending identifier order, and
\* when the rule is through, the visibility of every node is the one written
\* by the last hide or show reaching it, the operations counted match by
\* match (ascending), then group by group as the rule names them (a repeated
\* name counting again, a name without a group not at all), then operation by
\* operation; a node no hide or show reaches keeps its visibility.
C22_NodeByNode ==
    /\ \A i, j \in DOMAIN log :
        (i < j /\ log[i].ev = "node_ops" /\ log[j].ev = "node_ops") => log[i].one < log[j].one
    /\ (ni = 2 /\ pc # "panicked") =>
        \A n \in DOMAIN graph.nodes :
            LET writes == VisibilityWrites(filters, graph0, log[1].set, n)
                last == CHOOSE w \in writes : \A x \in writes : LexLeq(x, w)
            IN graph.nodes[n].visible =
                   IF writes = {} THEN graph0.nodes[n].visible
                   ELSE GroupOf(filters, last[2])[last[3]].name = "show"

\* C22 witness: show self then hide parents on every node: node 1 was shown
\* while node 1 was processed and hidden, as a parent of node 2, while node 2
\* was processed
C22_Witness ==
    /\ ni = 2 /\ pc # "panicked"
    /\ filters.node_filters[1].operations = <<"show_self", "hide_parents">>
    /\ log[1].set = {0, 1, 2}
    /\ 1 \in OneHop(graph0, "up", {2})
    /\ 1 \notin OneHop(graph0, "up", {1})
    /\ ~graph.nodes[1].visible
    /\ graph.nodes[2].visible

-----------------------------------------------------------------------------
(* The seeds of map_ascendant and map_descendant (under TravSpec)          *)

\* The pairs <<a, b>> with an edge leading from a to b in direction dir
EdgeSteps(g, dir) == {<<Near(dir, g.edges[i]), Far(dir, g.edges[i])>> : i \in DOMAIN g.edges}

\* The pairs joined by one or more steps of R
RECURSIVE TransitiveClosure(_)
TransitiveClosure(R) ==
    LET R2 == R \cup {<<pq[1][1], pq[2][2]>> : pq \in {x \in R \X R : x[1][2] = x[2][1]}}
    IN IF R2 = R THEN R ELSE TransitiveClosure(R2)

\* b is reached from a by one or more edges
Path(g, dir, a, b) == <<a, b>> \in TransitiveClosure(EdgeSteps(g, dir))

\* C23: a seed of map_ascendant (map_descendant) is mutated only if, and when
\* the call has returned if and only if, one or more edges lead to it from
\* some seed: being a seed is not being reached. With a single seed, the
\* seed is mutated exactly when it lies on a cycle (a self-loop included),
\* and on a graph without cycles it is left as it was.
C23_SeedNotSelfReached ==
    IsClosureCall =>
        \A s \in call.targets \cap DOMAIN graph.nodes :
            /\ fun_calls[s] > 0 =>
                   \E t \in call.targets : Path(graph, Dir(call.name), t, s)
            /\ pc = "returned" =>
                /\ (fun_calls[s] > 0) <=>
                       \E t \in call.targets : Path(graph, Dir(call.name), t, s)
                /\ call.targets = {s} =>
                       graph.nodes[s].visible = ~Path(graph, Dir(call.name), s, s)
                /\ (call.targets = {s} /\ \A x \in TravIds : ~Path(graph, Dir(call.name), x, x))
                       => graph.nodes[s] = graph0.nodes[s]

\* C23 witness: a returned call with two registered seeds that both have
\* edges: one lies on a cycle and was mutated, the other is reached from no
\* seed and was not, though a node beyond it was
C23_Witness ==
    /\ pc = "returned" /\ IsClosureCall
    /\ \E s, t \in call.targets \cap DOMAIN graph.nodes :
        /\ s # t
        /\ Path(graph, Dir(call.name), s, s) /\ ~graph.nodes[s].visible
        /\ \E n \in DOMAIN graph.nodes : n \notin call.targets
                                         /\ Path(graph, Dir(call.name), t, n)
                                         /\ ~graph.nodes[n].visible
        /\ graph.nodes[t].visible /\ fun_calls[t] = 0

====
